---- MODULE Spec2Model ----
(***************************************************************************)
(* Model of the team-photo compositor (morgan-jj-cheng/team-photo-spa).    *)
(*                                                                         *)
(* The repository holds four near-duplicate front-ends of one editing      *)
(* session.  The model keeps one session state and a `variant` field that  *)
(* selects whose handlers run:                                             *)
(*   "TeamPhotoEditor"  src/App.tsx:159    render, handleAiBg, camera      *)
(*   "ChromaStudio"     src/App.tsx:601    render, handleAiBg              *)
(*   "AIComposer"       src/App.tsx:1035   processComposite on             *)
(*                                         requestAnimationFrame, crop     *)
(*                                         editor, export                  *)
(*   "ProComposer"      src/unnamed/part_000:90  processComposite on one   *)
(*                                         persistent buffer canvas, crop  *)
(*                                         editor                          *)
(*                                                                         *)
(* Conventions.  Slider fractions are held as whole numbers of their step: *)
(* similarity, smoothness, spill and scale in hundredths, crop coordinates *)
(* in twentieths (0.05 is one unit).  Arithmetic is exact: the rounding of *)
(* IEEE doubles is not modelled.  React state setters called in one        *)
(* handler are committed together (automatic batching), and the effect of  *)
(* a commit runs before the next event is handled.                         *)
(***************************************************************************)
EXTENDS Integers, Sequences, FiniteSets, TLC

(***************************************************************************)
(* Bounds of the model.                                                    *)
(***************************************************************************)
MaxRequests == 2    \* generation requests issued in one session
MaxEdits == 3       \* settings edits (slider, toggle, reset, crop move) in one session

NULL == "null"

Variants == {"TeamPhotoEditor", "ChromaStudio", "AIComposer", "ProComposer"}

\* The front-ends that render inside the effect, synchronously.
SyncVariants == {"TeamPhotoEditor", "ChromaStudio", "ProComposer"}

\* The front-ends that have the interactive crop editor.
CropEditorVariants == {"AIComposer", "ProComposer"}

Min(a, b) == IF a <= b THEN a ELSE b

Max(a, b) == IF a >= b THEN a ELSE b

\* ceil(a / b) for b > 0
CeilDiv(a, b) == -((-a) \div b)

\* The element of a one-element set.  {e(x) : x \in {v}} evaluates v once
\* and names the result x in e.
Only(S) == CHOOSE x \in S : TRUE

\* The function f as an explicit table of its values.
Table(f) == f @@ <<>>

(***************************************************************************)
(* Pixels and rasters.  A pixel is <<r, g, b, a>> with 8-bit channels.     *)
(* Resampled stands for a pixel whose value the browser's image filter     *)
(* decides (a blend of differing neighbours); it is no colour of any       *)
(* raster.                                                                 *)
(***************************************************************************)
Transparent == <<0, 0, 0, 0>>

Resampled == <<-1, -1, -1, -1>>

Rgb(r, g, b) == <<r, g, b, 255>>

Coords(w, h) == (0 .. (w - 1)) \X (0 .. (h - 1))

\* A canvas element as created: 300 x 150, transparent black.  `pix` holds
\* the pixels drawn since the bitmap was last reset; every other pixel is
\* transparent black.
DefaultCanvas == [width |-> 300, height |-> 150, pix |-> <<>>]

\* Assigning canvas.width / canvas.height: the bitmap takes the new size and
\* is cleared, also when the size does not change.
ResizeKeepsBitmap(canvas, w, h) ==
    IF canvas.width = w /\ canvas.height = h
    THEN canvas
    ELSE [width |-> w, height |-> h, pix |-> <<>>]

SetCanvasSize(canvas, w, h) == [width |-> w, height |-> h, pix |-> <<>>]

PixelAt(canvas, x, y) ==
    IF <<x, y>> \in DOMAIN canvas.pix THEN canvas.pix[<<x, y>>] ELSE Transparent

\* Canvas compositing, globalCompositeOperation = source-over:
\* out = src * a + dst * (1 - a) per channel.
SourceOver(s, d) ==
    IF s = Resampled THEN Resampled
    ELSE IF s[4] = 0 THEN d
    ELSE IF s[4] = 255 THEN s
    ELSE IF d = Resampled THEN Resampled
    ELSE IF d[4] = 0 THEN s
    ELSE IF d[4] = 255
         THEN LET mix(c) == (2 * (s[c] * s[4] + d[c] * (255 - s[4])) + 255) \div 510
              IN  <<mix(1), mix(2), mix(3), 255>>
    ELSE Resampled

(***************************************************************************)
(* ctx.drawImage(src, sx, sy, sw, sh, dx, dy, dw, dh).  The eight          *)
(* coordinates are numerators over the common denominator D.  A            *)
(* destination pixel wholly inside the destination rectangle whose source  *)
(* footprint lies in the source and covers pixels of one value takes that  *)
(* value, composited source-over; a destination pixel the rectangle does   *)
(* not touch, or whose footprint lies outside the source, keeps its value; *)
(* any other touched pixel is Resampled.                                   *)
(***************************************************************************)
DrawImage(onto, from, sx, sy, sw, sh, dx, dy, dw, dh, D) ==
    IF sw <= 0 \/ sh <= 0 \/ dw <= 0 \/ dh <= 0 THEN onto
    ELSE IF from.pix = <<>> THEN onto   \* every source pixel is transparent
    ELSE
    LET \* destination interval of pixel index i along one axis
        lo(i, d0) == Max(i * D, d0)
        hi(i, d0, dl) == Min((i + 1) * D, d0 + dl)
        touched(i, d0, dl) == lo(i, d0) < hi(i, d0, dl)
        whole(i, d0, dl) == d0 <= i * D /\ (i + 1) * D <= d0 + dl
        \* source pixel indices under the footprint of destination pixel i
        first(i, s0, sl, d0, dl) ==
            (s0 * dl + (lo(i, d0) - d0) * sl) \div (dl * D)
        last(i, s0, sl, d0, dl) ==
            CeilDiv(s0 * dl + (hi(i, d0, dl) - d0) * sl, dl * D) - 1
        span(i, s0, sl, d0, dl) ==
            first(i, s0, sl, d0, dl) .. last(i, s0, sl, d0, dl)
        hitPix(dst, src) ==
            {p \in Coords(dst.width, dst.height) :
                /\ touched(p[1], dx, dw) /\ touched(p[2], dy, dh)
                /\ span(p[1], sx, sw, dx, dw) \cap (0 .. (src.width - 1)) # {}
                /\ span(p[2], sy, sh, dy, dh) \cap (0 .. (src.height - 1)) # {}}
        value(dst, src, p) ==
            LET xs == span(p[1], sx, sw, dx, dw)
                ys == span(p[2], sy, sh, dy, dh)
                inside == /\ xs \subseteq (0 .. (src.width - 1))
                          /\ ys \subseteq (0 .. (src.height - 1))
                vals == {PixelAt(src, q[1], q[2]) :
                            q \in (xs \cap (0 .. (src.width - 1)))
                                  \X (ys \cap (0 .. (src.height - 1)))}
            IN  IF /\ whole(p[1], dx, dw) /\ whole(p[2], dy, dh)
                   /\ inside /\ Cardinality(vals) = 1
                THEN SourceOver(Only(vals), PixelAt(dst, p[1], p[2]))
                ELSE IF vals = {Transparent} THEN PixelAt(dst, p[1], p[2])
                ELSE Resampled
        drawn(dst, src, hit) ==
            [dst EXCEPT !.pix =
                Table([p \in (DOMAIN dst.pix) \cup hit |->
                        IF p \in hit THEN value(dst, src, p) ELSE dst.pix[p]])]
    IN  Only({Only({drawn(dst, src, hit) : hit \in {hitPix(dst, src)}}) :
                dst \in {onto}, src \in {from}})

(***************************************************************************)
(* The decoded images of the session: what a file upload, or the decoding  *)
(* of a generated data URL, yields.                                        *)
(***************************************************************************)
Green == Rgb(0, 255, 0)

Blue == Rgb(0, 0, 255)

Red == Rgb(255, 0, 0)

White == Rgb(255, 255, 255)

FgImages == {"portrait", "wide", "greenScreen"}

UploadedBackgrounds == {"redWall", "cutout"}

AiImages == {"aiOffice", "aiBeach"}

\* `id` decoded: an HTMLImageElement with its pixel data.
Decoded(id) ==
    CASE id = "portrait" ->
            [width |-> 2, height |-> 2,
             pix |-> [p \in Coords(2, 2) |->
                        IF p \in {<<0, 0>>, <<1, 1>>} THEN Green ELSE Blue]]
      [] id = "wide" ->
            [width |-> 4, height |-> 2,
             pix |-> [p \in Coords(4, 2) |->
                        IF p[1] = 0 THEN Green
                        ELSE IF p[1] = 3 THEN White ELSE Blue]]
      [] id = "greenScreen" ->
            [width |-> 4, height |-> 4, pix |-> [p \in Coords(4, 4) |-> Green]]
      [] id = "redWall" ->
            [width |-> 1, height |-> 1, pix |-> [p \in Coords(1, 1) |-> Red]]
      [] id = "cutout" ->
            [width |-> 2, height |-> 2,
             pix |-> [p \in Coords(2, 2) |->
                        IF p = <<0, 0>> THEN Transparent ELSE White]]
      [] id = "aiOffice" ->
            [width |-> 1, height |-> 1, pix |-> [p \in Coords(1, 1) |-> White]]
      [] id = "aiBeach" ->
            [width |-> 1, height |-> 1, pix |-> [p \in Coords(1, 1) |-> Red]]

(***************************************************************************)
(* Colour model utilities.                                                 *)
(***************************************************************************)
HexDigits ==
    <<"0", "1", "2", "3", "4", "5", "6", "7", "8", "9",
      "a", "b", "c", "d", "e", "f">>

UpperHexDigits ==
    <<"0", "1", "2", "3", "4", "5", "6", "7", "8", "9",
      "A", "B", "C", "D", "E", "F">>

IsHexDigit(ch) ==
    \E i \in 1 .. 16 : HexDigits[i] = ch \/ UpperHexDigits[i] = ch

HexValue(ch) ==
    (CHOOSE i \in 1 .. 16 : HexDigits[i] = ch \/ UpperHexDigits[i] = ch) - 1

\* hexToRgb: /^#?([a-f\d]{2})([a-f\d]{2})([a-f\d]{2})$/i, else {0, 255, 0}.
\* A colour string is the sequence of its characters.
hexToRgb(hex) ==
    LET body == IF Len(hex) > 0 /\ hex[1] = "#" THEN Tail(hex) ELSE hex
        byte(i) == 16 * HexValue(body[i]) + HexValue(body[i + 1])
    IN  IF Len(body) = 6 /\ \A i \in 1 .. 6 : IsHexDigit(body[i])
        THEN <<byte(1), byte(3), byte(5)>>
        ELSE <<0, 255, 0>>

DistSq(p, key) ==
    (p[1] - key[1]) * (p[1] - key[1]) + (p[2] - key[2]) * (p[2] - key[2])
        + (p[3] - key[3]) * (p[3] - key[3])

RECURSIVE SqrtBetween(_, _, _)
SqrtBetween(n, lo, hi) ==
    IF lo = hi THEN lo
    ELSE LET mid == (lo + hi + 1) \div 2
         IN  IF mid * mid <= n THEN SqrtBetween(n, mid, hi)
             ELSE SqrtBetween(n, lo, mid - 1)

\* The whole part of Math.sqrt(n), for n up to 3 * 255^2.
ISqrt(n) == SqrtBetween(n, 0, 442)

\* The sign of sqrt(dsq) - N / M, for N >= 0 and M > 0, in exact arithmetic.
SqrtCmp(dsq, N, M) ==
    LET sign(k) ==
            LET r == N - k * M
                c == dsq - k * k
            IN  IF r <= 0 THEN (IF r = 0 /\ c = 0 THEN 0 ELSE 1)
                ELSE IF c = 0 \/ r >= M THEN -1
                ELSE IF 2 * k * r + CeilDiv(r * r, M) <= c * M THEN 1 ELSE -1
    IN  Only({sign(k) : k \in {ISqrt(dsq)}})

\* d < t, where d = sqrt(dsq) / 442 and t is in hundredths.  d is below 1.
DistBelow(dsq, t) == t >= 100 \/ SqrtCmp(dsq, 442 * t, 100) < 0

\* ((d - similarity) / smoothness) * 255 compared with a / 2, for a pixel in
\* the ramp band: the sign of the difference.
RampCmpHalves(dsq, similarity, smoothness, a) ==
    SqrtCmp(dsq, 221 * (510 * similarity + a * smoothness), 25500)

\* A ramp that falls with the distance.
RampFloorInverted(dsq, similarity, smoothness) ==
    Cardinality({a \in 1 .. 254 :
                    RampCmpHalves(dsq, similarity, smoothness, 2 * a) < 0})

\* Math.floor of the ramp value.
RampFloor(dsq, similarity, smoothness) ==
    Cardinality({a \in 1 .. 254 :
                    RampCmpHalves(dsq, similarity, smoothness, 2 * a) >= 0})

\* The ramp value stored in a Uint8ClampedArray: round to nearest, ties to
\* even.
RampRounded(dsq, similarity, smoothness) ==
    LET nearest(f, half) ==
            IF half > 0 THEN f + 1
            ELSE IF half < 0 THEN f
            ELSE IF f % 2 = 0 THEN f ELSE f + 1
        rounded(f) ==
            Only({nearest(f, half) :
                    half \in {RampCmpHalves(dsq, similarity, smoothness, 2 * f + 1)}})
    IN  Only({rounded(f) : f \in {RampFloor(dsq, similarity, smoothness)}})

(***************************************************************************)
(* The ramp value is computed in double arithmetic.  d = sqrt(dsq) / 442   *)
(* is irrational unless dsq is 0, where the ramp value is 0, or 221 * 221, *)
(* where d is 0.5; only at d = 0.5 can the exact ramp value be a whole or  *)
(* a half number, and there the rounding error of the computation decides  *)
(* the stored byte.  The settings <<similarity, smoothness>>, in           *)
(* hundredths, for which the computed value is off the exact one:          *)
(***************************************************************************)
\* ((0.5 - similarity) * (1 / smoothness)) * 255 is below its exact whole
\* value.
FloorFallsShort ==
    {<<20, 34>>, <<26, 34>>, <<28, 34>>, <<32, 27>>, <<32, 34>>,
     <<34, 17>>, <<34, 20>>, <<34, 34>>, <<34, 40>>, <<38, 17>>,
     <<38, 34>>, <<39, 17>>, <<40, 15>>, <<40, 17>>, <<40, 25>>,
     <<40, 30>>, <<40, 34>>, <<40, 50>>, <<44, 17>>, <<44, 34>>,
     <<45, 15>>, <<45, 17>>, <<45, 25>>, <<46, 5>>, <<46, 6>>, <<46, 10>>,
     <<46, 12>>, <<46, 15>>, <<46, 17>>, <<46, 20>>, <<46, 30>>, <<46, 34>>}

\* ((0.5 - similarity) / smoothness) * 255 is below its exact value, a whole
\* number and a half.
RoundedFallsShort ==
    {<<14, 40>>, <<15, 42>>, <<17, 34>>, <<25, 34>>, <<27, 30>>,
     <<27, 34>>, <<27, 46>>, <<28, 44>>, <<32, 20>>, <<33, 34>>,
     <<34, 32>>, <<39, 22>>, <<39, 34>>, <<40, 12>>, <<40, 20>>, <<45, 6>>,
     <<45, 10>>, <<45, 30>>, <<45, 34>>, <<45, 50>>, <<46, 8>>, <<46, 24>>,
     <<46, 40>>}

\* ((0.5 - similarity) / smoothness) * 255 is above its exact value, a whole
\* number and a half.
RoundedOvershoots ==
    {<<21, 30>>, <<21, 34>>, <<22, 40>>, <<23, 30>>, <<29, 30>>,
     <<29, 42>>, <<31, 30>>, <<35, 18>>, <<35, 30>>, <<35, 34>>,
     <<35, 50>>, <<36, 20>>, <<41, 10>>, <<41, 18>>, <<41, 30>>,
     <<41, 34>>, <<42, 16>>, <<42, 48>>, <<43, 10>>, <<43, 30>>,
     <<43, 34>>, <<43, 42>>, <<47, 6>>, <<47, 10>>, <<47, 18>>, <<47, 30>>,
     <<47, 34>>, <<48, 4>>, <<48, 12>>, <<48, 20>>, <<49, 2>>, <<49, 6>>,
     <<49, 10>>, <<49, 30>>, <<49, 34>>}

\* Math.floor of the ramp value as computed.
ComputedFloor(dsq, similarity, smoothness) ==
    IF dsq = 221 * 221 /\ <<similarity, smoothness>> \in FloorFallsShort
    THEN RampFloor(dsq, similarity, smoothness) - 1
    ELSE RampFloor(dsq, similarity, smoothness)

\* The ramp value as computed, stored in a Uint8ClampedArray.
ComputedRounded(dsq, similarity, smoothness) ==
    IF dsq = 221 * 221 /\ <<similarity, smoothness>> \in RoundedFallsShort
    THEN RampFloor(dsq, similarity, smoothness)
    ELSE IF dsq = 221 * 221 /\ <<similarity, smoothness>> \in RoundedOvershoots
    THEN RampFloor(dsq, similarity, smoothness) + 1
    ELSE RampRounded(dsq, similarity, smoothness)

\* A value of n / ToneUnit stored in a Uint8Array: the whole part modulo 256.
StoreWrapped(n) == (n \div (2 * 1000 * 100)) % 256

\* A value of n / ToneUnit stored in a Uint8ClampedArray after
\* Math.min(255, Math.max(0, .)): round to nearest, ties to even.
StoreClamped(n) ==
    LET U == 2 * 1000 * 100
        nearest(c) ==
            IF 2 * (c % U) < U THEN c \div U
            ELSE IF 2 * (c % U) > U THEN (c \div U) + 1
            ELSE IF (c \div U) % 2 = 0 THEN c \div U ELSE (c \div U) + 1
    IN  Only({nearest(c) : c \in {Min(255 * U, Max(0, n))}})

\* A value of n / 2 stored in a Uint8ClampedArray.
StoreClampedHalves(n) ==
    LET c == Min(510, Max(0, n))
    IN  IF c % 2 = 0 THEN c \div 2
        ELSE IF ((c - 1) \div 2) % 2 = 0 THEN (c - 1) \div 2 ELSE (c + 1) \div 2

(***************************************************************************)
(* Stage 1 of the pixel loop: the alpha matte.  `c` is the chroma          *)
(* settings record, `dsq` the squared RGB distance of the source pixel     *)
(* from the key colour.                                                    *)
(***************************************************************************)
Below(dsq, t) == DistBelow(dsq, t)

\* A band with no upper end.
InRampNoUpperEnd(dsq, c) == ~Below(dsq, c.similarity)

\* A band that takes in its upper end: d <= similarity + smoothness.
InRampClosed(dsq, c) ==
    /\ ~Below(dsq, c.similarity)
    /\ \/ c.similarity + c.smoothness >= 100
       \/ SqrtCmp(dsq, 442 * (c.similarity + c.smoothness), 100) <= 0

InRamp(dsq, c) ==
    ~Below(dsq, c.similarity) /\ Below(dsq, c.similarity + c.smoothness)

\* An alpha without the hard cut below the similarity threshold.
StoredAlphaNoCut(v, dsq, c) ==
    IF InRamp(dsq, c)
    THEN IF v = "AIComposer"
         THEN ComputedFloor(dsq, c.similarity, c.smoothness)
         ELSE ComputedRounded(dsq, c.similarity, c.smoothness)
    ELSE 255

\* The alpha the loop computes, as written to data[i+3].  AIComposer floors
\* the ramp value; the others store the fraction.
StoredAlpha(v, dsq, c) ==
    IF Below(dsq, c.similarity) THEN 0
    ELSE IF InRamp(dsq, c)
         THEN IF v = "AIComposer"
              THEN ComputedFloor(dsq, c.similarity, c.smoothness)
              ELSE ComputedRounded(dsq, c.similarity, c.smoothness)
    ELSE 255

\* The test `alpha > 0` of the loop, on the alpha before it is stored.
AlphaPositive(v, dsq, c) ==
    IF v = "AIComposer" THEN StoredAlpha(v, dsq, c) > 0
    ELSE /\ ~Below(dsq, c.similarity)
         /\ (InRamp(dsq, c) => SqrtCmp(dsq, 442 * c.similarity, 100) > 0)

\* Whether the green channel is cut back to the average of red and blue.
SpillApplies(v, dsq, c) ==
    /\ AlphaPositive(v, dsq, c)
    /\ IF v = "AIComposer"
       THEN Below(dsq, c.similarity + c.spill)
       ELSE Below(dsq, c.similarity + c.spill + c.smoothness)

(***************************************************************************)
(* Stage 2 of the pixel loop: tone adjustment of one retained pixel.       *)
(* Channels come in as numerators over 2 and leave as numerators over     *)
(* ToneUnit.  Brightness, black point, saturation, warmth and tint are     *)
(* applied in each front-end's order; exposure, contrast, the luminance    *)
(* pushes (brilliance, highlights, shadows) and sharpening are taken at    *)
(* their default 0, where each of them is the identity.  The arithmetic is *)
(* exact: the byte stored can differ from the one the double computation   *)
(* stores only where the exact value is a whole number and a half.         *)
(***************************************************************************)
ToneUnit == 2 * 1000 * 100

\* gray + (channel - gray) * (1 + saturation / 100), with
\* gray = 0.299 r + 0.587 g + 0.114 b, on numerators over 2.
Saturate(t, saturation) ==
    LET mixed(gray) ==
            <<100 * gray + (1000 * t[1] - gray) * (100 + saturation),
              100 * gray + (1000 * t[2] - gray) * (100 + saturation),
              100 * gray + (1000 * t[3] - gray) * (100 + saturation)>>
    IN  Only({mixed(gray) : gray \in {299 * t[1] + 587 * t[2] + 114 * t[3]}})

\* A tone stage in which every front-end saturates before warmth and tint.
ToneAdjustSaturateFirst(v, h, a) ==
    LET bright == <<h[1] + 2 * a.brightness, h[2] + 2 * a.brightness,
                    h[3] + 2 * a.brightness>>
        black(b) == IF v = "ProComposer" \/ (v = "AIComposer" /\ a.blackPoint # 0)
                    THEN <<Max(0, b[1] - 2 * a.blackPoint),
                           Max(0, b[2] - 2 * a.blackPoint),
                           Max(0, b[3] - 2 * a.blackPoint)>>
                    ELSE b
        balancedFine(k) ==
            <<k[1] + ToneUnit * a.warmth, k[2] + ToneUnit * a.tint,
              k[3] - ToneUnit * a.warmth>>
        toned(k) ==
            Only({balancedFine(m) : m \in {Saturate(k, a.saturation)}})
    IN  Only({Only({toned(k) : k \in {black(b)}}) : b \in {bright}})

\* AIComposer: brightness, black point, saturation, warmth, tint.  The
\* others: brightness, (black point,) warmth and tint, saturation.
ToneAdjust(v, h, a) ==
    LET bright == <<h[1] + 2 * a.brightness, h[2] + 2 * a.brightness,
                    h[3] + 2 * a.brightness>>
        black(b) == IF v = "ProComposer" \/ (v = "AIComposer" /\ a.blackPoint # 0)
                    THEN <<Max(0, b[1] - 2 * a.blackPoint),
                           Max(0, b[2] - 2 * a.blackPoint),
                           Max(0, b[3] - 2 * a.blackPoint)>>
                    ELSE b
        balanced(k) ==
            <<k[1] + 2 * a.warmth, k[2] + 2 * a.tint, k[3] - 2 * a.warmth>>
        balancedFine(k) ==
            <<k[1] + ToneUnit * a.warmth, k[2] + ToneUnit * a.tint,
              k[3] - ToneUnit * a.warmth>>
        toned(k) ==
            IF v = "AIComposer"
            THEN Only({balancedFine(m) : m \in {Saturate(k, a.saturation)}})
            ELSE Only({Saturate(m, a.saturation) : m \in {balanced(k)}})
    IN  Only({Only({toned(k) : k \in {black(b)}}) : b \in {bright}})

\* A loop that corrects spill on and adjusts every pixel, keyed out or not.
KeyPixelAlways(v, p, key, c, a) ==
    LET g2(dsq) == IF Below(dsq, c.similarity + c.spill + c.smoothness)
                   THEN Min(2 * p[2], p[1] + p[3]) ELSE 2 * p[2]
        stored(t, alpha) ==
            <<StoreClamped(t[1]), StoreClamped(t[2]), StoreClamped(t[3]), alpha>>
        written(dsq, alpha) ==
            Only({stored(t, alpha) :
                    t \in {ToneAdjust(v, <<2 * p[1], g2(dsq), 2 * p[3]>>, a)}})
    IN  Only({Only({written(dsq, alpha) : alpha \in {StoredAlpha(v, dsq, c)}}) :
                dsq \in {DistSq(p, key)}})

\* One turn of the pixel loop: the pixel written back to the frame data.
\* `key` is hexToRgb(keyColor), computed once before the loop.
KeyPixel(v, p, key, c, a) ==
    LET g2(dsq) == IF SpillApplies(v, dsq, c)
                   THEN Min(2 * p[2], p[1] + p[3]) ELSE 2 * p[2]
        stored(t, alpha) ==
            <<StoreClamped(t[1]), StoreClamped(t[2]), StoreClamped(t[3]), alpha>>
        written(dsq, alpha) ==
            IF AlphaPositive(v, dsq, c)
            THEN Only({stored(t, alpha) :
                        t \in {ToneAdjust(v, <<2 * p[1], g2(dsq), 2 * p[3]>>, a)}})
            ELSE <<p[1], p[2], p[3], alpha>>
    IN  Only({Only({written(dsq, alpha) : alpha \in {StoredAlpha(v, dsq, c)}}) :
                dsq \in {DistSq(p, key)}})

\* The work canvas after putImageData: the keyed and adjusted foreground.
\* A pixel stored with alpha 0 is transparent black in the bitmap.
KeyedLayer(v, fg, c, a) ==
    LET inBitmap(k) == IF k[4] = 0 THEN Transparent ELSE k
        layer(key) ==
            [width |-> fg.width, height |-> fg.height,
             pix |-> Table([p \in Coords(fg.width, fg.height) |->
                        Only({inBitmap(k) :
                            k \in {KeyPixel(v, PixelAt(fg, p[1], p[2]), key, c, a)}})])]
    IN  Only({layer(key) : key \in {hexToRgb(c.keyColor)}})

(***************************************************************************)
(* Backdrop: the background image aspect-filled into the canvas, or the    *)
(* front-end's fallback fill.                                              *)
(***************************************************************************)
FallbackPixel(v, x, y) ==
    CASE v = "TeamPhotoEditor" -> Rgb(22, 27, 34)
      [] v = "ChromaStudio" -> Rgb(9, 9, 11)
      [] v = "AIComposer" ->
            IF ((x \div 20) + (y \div 20)) % 2 = 0
            THEN Rgb(51, 51, 51) ELSE Rgb(68, 68, 68)
      [] v = "ProComposer" ->
            IF ((x \div 30) + (y \div 30)) % 2 = 0
            THEN Rgb(22, 27, 34) ELSE Rgb(14, 17, 23)

\* The pairs <<bgImg.width, width>> of the sampled sizes for which the double
\* product bgImg.height * (width / bgImg.width) comes out one unit in the
\* last place below `height` when the two aspect ratios are equal.
HeightFallsShort == {<<11, 15>>, <<11, 30>>, <<22, 15>>, <<22, 30>>}

\* An aspect fit: the branches of the fill exchanged, which letterboxes.
AspectFit(bw, bh, W, H) ==
    IF bw * H < W * bh
    THEN [D |-> 2 * bh, dx |-> W * bh - bw * H, dy |-> 0,
          dw |-> 2 * bw * H, dh |-> H * 2 * bh, short |-> FALSE]
    ELSE [D |-> 2 * bw, dx |-> 0, dy |-> H * bw - bh * W,
          dw |-> W * 2 * bw, dh |-> 2 * bh * W, short |-> FALSE]

\* The destination rectangle (oX, oY, dW, dH) of the background draw, as
\* numerators over D.  bgRatio > canvasRatio: dH = height, dW = bgImg.width *
\* (height / bgImg.height); otherwise dW = width, dH = bgImg.height * (width /
\* bgImg.width).  The numerators are the exact values; `short` tells that
\* the dH the doubles give is a rounding error below its exact value.
AspectFill(bw, bh, W, H) ==
    IF bw * H > W * bh
    THEN [D |-> 2 * bh, dx |-> W * bh - bw * H, dy |-> 0,
          dw |-> 2 * bw * H, dh |-> H * 2 * bh, short |-> FALSE]
    ELSE [D |-> 2 * bw, dx |-> 0, dy |-> H * bw - bh * W,
          dw |-> W * 2 * bw, dh |-> 2 * bh * W,
          short |-> bw * H = W * bh /\ <<bw, W>> \in HeightFallsShort]

Backdrop(v, canvas, bgImg) ==
    LET W == canvas.width
        H == canvas.height
        drawn(bg, g) ==
            DrawImage(canvas, bg, 0, 0, bg.width * g.D, bg.height * g.D,
                      g.dx, g.dy, g.dw, g.dh, g.D)
        filled(bg) ==
            Only({drawn(bg, g) : g \in {AspectFill(bg.width, bg.height, W, H)}})
    IN  IF bgImg # NULL
        THEN Only({filled(bg) : bg \in {Decoded(bgImg)}})
        ELSE [canvas EXCEPT !.pix =
                Table([p \in Coords(W, H) |-> FallbackPixel(v, p[1], p[2])])]

(***************************************************************************)
(* Stage 3: the perspective warp, one scanline strip at a time.            *)
(***************************************************************************)
BlankCanvas(w, h) == SetCanvasSize(DefaultCanvas, w, h)

\* The scale of the strip at position `pos` of `n`, over 200 * n.
\* AIComposer (sign -1): 1 - ((pos - n/2) / (n/2)) * (tilt / 200);
\* the others (sign 1): 1 + ((pos / n) - 0.5) * (tilt / 200) * 2.
StripScale(n, pos, tilt, sign) == 200 * n + sign * (2 * pos - n) * tilt

\* The strip thickness and the sense of the tilt in each front-end's loops.
TiltStep(v) == IF v = "AIComposer" THEN 2 ELSE 1

TiltSign(v) == IF v = "AIComposer" THEN -1 ELSE 1

RECURSIVE TiltRows(_, _, _, _, _, _)
\* Rows y, y + step, ... of src drawn onto dst, row y scaled about the
\* centre by sN(y) / (200 * H).
TiltRows(dst, src, y, step, tilt, sign) ==
    LET W == src.width
        H == src.height
        D == 400 * H
        sN == StripScale(H, y, tilt, sign)
        strip == IF sN <= 0 THEN dst
                 ELSE DrawImage(dst, src, 0, y * D, W * D, step * D,
                                W * (200 * H - sN), y * D, 2 * W * sN, step * D, D)
    IN  IF y >= H THEN dst
        ELSE Only({TiltRows(next, src, y + step, step, tilt, sign) :
                        next \in {strip}})

RECURSIVE TiltColumns(_, _, _, _, _, _)
\* Columns x, x + step, ... of src drawn onto dst, column x scaled about the
\* centre by sN(x) / (200 * W).
TiltColumns(dst, src, x, step, tilt, sign) ==
    LET W == src.width
        H == src.height
        D == 400 * W
        sN == StripScale(W, x, tilt, sign)
        strip == IF sN <= 0 THEN dst
                 ELSE DrawImage(dst, src, x * D, 0, step * D, H * D,
                                x * D, H * (200 * W - sN), step * D, 2 * H * sN, D)
    IN  IF x >= W THEN dst
        ELSE Only({TiltColumns(next, src, x + step, step, tilt, sign) :
                        next \in {strip}})

\* The vertical tilt pass: skipped when the slider is at 0.
VerticalTilt(src, t, step, sign) ==
    IF t.vertical # 0
    THEN TiltRows(BlankCanvas(src.width, src.height), src, 0, step,
                  t.vertical, sign)
    ELSE src

\* The horizontal tilt pass: skipped when the slider is at 0.
HorizontalTilt(src, t, step, sign) ==
    IF t.horizontal # 0
    THEN TiltColumns(BlankCanvas(src.width, src.height), src, 0, step,
                     t.horizontal, sign)
    ELSE src

\* The layer copied onto a fresh canvas of its size.
CopyOf(src) ==
    DrawImage(BlankCanvas(src.width, src.height), src,
              0, 0, src.width, src.height, 0, 0, src.width, src.height, 1)

WarpOf(v, layer, t) ==
    CASE v = "TeamPhotoEditor" ->
            IF t.vertical # 0 \/ t.horizontal # 0
            THEN TiltRows(BlankCanvas(layer.width, layer.height), layer, 0, 1,
                          t.vertical, 1)
            ELSE layer
      [] v = "ChromaStudio" -> layer
      [] v = "AIComposer" ->
            Only({IF t.vertical # 0
                  THEN VerticalTilt(sourceForVertical, t, TiltStep(v), TiltSign(v))
                  ELSE CopyOf(sourceForVertical) :
                    sourceForVertical \in
                        {HorizontalTilt(layer, t, TiltStep(v), TiltSign(v))}})
      [] v = "ProComposer" ->
            Only({HorizontalTilt(temp, t, TiltStep(v), TiltSign(v)) :
                    temp \in {VerticalTilt(layer, t, TiltStep(v), TiltSign(v))}})

Perspective(v, keyed, t) == Only({WarpOf(v, layer, t) : layer \in {keyed}})

(***************************************************************************)
(* Stage 4: the layer drawn over the backdrop under translate / rotate /   *)
(* scale.  Coordinates are over 200 (pan is a percentage, scale is in      *)
(* hundredths, the origin is the centre).  A rotated layer is resampled    *)
(* everywhere.                                                             *)
(***************************************************************************)
\* An overlay that draws the layer with its corner, not its centre, at the
\* translated origin.
OverlayFromCentre(backdrop, warped, t) ==
    LET over(canvas, layer) ==
            LET W == canvas.width
                H == canvas.height
            IN  IF t.rotate # 0
                THEN [canvas EXCEPT !.pix = Table([p \in Coords(W, H) |-> Resampled])]
                ELSE DrawImage(canvas, layer,
                               0, 0, 200 * layer.width, 200 * layer.height,
                               100 * W + 2 * t.panX * W,
                               100 * H + 2 * t.panY * H,
                               2 * t.scale * layer.width, 2 * t.scale * layer.height,
                               200)
    IN  Only({over(canvas, layer) : canvas \in {backdrop}, layer \in {warped}})

Overlay(backdrop, warped, t) ==
    LET over(canvas, layer) ==
            LET W == canvas.width
                H == canvas.height
            IN  IF t.rotate # 0
                THEN [canvas EXCEPT !.pix = Table([p \in Coords(W, H) |-> Resampled])]
                ELSE DrawImage(canvas, layer,
                               0, 0, 200 * layer.width, 200 * layer.height,
                               100 * W + 2 * t.panX * W - t.scale * W,
                               100 * H + 2 * t.panY * H - t.scale * H,
                               2 * t.scale * layer.width, 2 * t.scale * layer.height,
                               200)
    IN  Only({over(canvas, layer) : canvas \in {backdrop}, layer \in {warped}})

\* The buffer after stages 1..4, drawn on `buffer` once it has been sized to
\* the foreground: the uncropped composite of the snapshot `s`.
Composite(v, s, buffer) ==
    LET fg == Decoded(s.fgImg)
    IN  Overlay(Backdrop(v, SetCanvasSize(buffer, fg.width, fg.height), s.bgImg),
                Perspective(v, KeyedLayer(v, fg, s.chroma, s.adjust), s.transform),
                s.transform)

(***************************************************************************)
(* Stage 5: the display canvas.  Crop coordinates are in twentieths, so    *)
(* pixel coordinates are over 20; a canvas dimension is an unsigned long,  *)
(* the assigned number truncated.                                          *)
(***************************************************************************)
CropOutputIgnoresMode(v, display, buffer, crop, isCropping) ==
    LET cw == Max(20, buffer.width * crop.width)
        ch == Max(20, buffer.height * crop.height)
    IN  DrawImage(SetCanvasSize(display, cw \div 20, ch \div 20), buffer,
                  buffer.width * crop.x, buffer.height * crop.y, cw, ch,
                  0, 0, cw, ch, 20)

\* A crop that takes the rect's size but reads from the buffer's origin.
CropOutputFromOrigin(v, display, buffer, crop, isCropping) ==
    IF isCropping
    THEN DrawImage(SetCanvasSize(display, buffer.width, buffer.height), buffer,
                   0, 0, buffer.width, buffer.height,
                   0, 0, buffer.width, buffer.height, 1)
    ELSE LET cw == Max(20, buffer.width * crop.width)
             ch == Max(20, buffer.height * crop.height)
         IN  DrawImage(SetCanvasSize(display, cw \div 20, ch \div 20), buffer,
                       0, 0, cw, ch, 0, 0, cw, ch, 20)

\* A crop output without the one-pixel minimum.
CropOutputUnclamped(v, display, buffer, crop, isCropping) ==
    IF isCropping
    THEN DrawImage(SetCanvasSize(display, buffer.width, buffer.height), buffer,
                   0, 0, buffer.width, buffer.height,
                   0, 0, buffer.width, buffer.height, 1)
    ELSE LET cw == buffer.width * crop.width
             ch == buffer.height * crop.height
         IN  DrawImage(SetCanvasSize(display, cw \div 20, ch \div 20), buffer,
                       buffer.width * crop.x, buffer.height * crop.y, cw, ch,
                       0, 0, cw, ch, 20)

CropOutput(v, display, buffer, crop, isCropping) ==
    IF isCropping
    THEN DrawImage(SetCanvasSize(display, buffer.width, buffer.height), buffer,
                   0, 0, buffer.width, buffer.height,
                   0, 0, buffer.width, buffer.height, 1)
    ELSE LET floorOne == v \in {"AIComposer", "ProComposer"}
             cw == IF floorOne THEN Max(20, buffer.width * crop.width)
                   ELSE buffer.width * crop.width
             ch == IF floorOne THEN Max(20, buffer.height * crop.height)
                   ELSE buffer.height * crop.height
         IN  DrawImage(SetCanvasSize(display, cw \div 20, ch \div 20), buffer,
                       buffer.width * crop.x, buffer.height * crop.y, cw, ch,
                       0, 0, cw, ch, 20)

(***************************************************************************)
(* render / processComposite: one run of the pipeline on the snapshot `s`  *)
(* of the state the callback closed over.  ProComposer composes on its     *)
(* persistent buffer canvas; the others on a canvas created for the run.   *)
(***************************************************************************)
\* The pipeline entered without a foreground: the canvases are sized to an
\* image of no width and height.
processCompositeNoGuard(v, s, buffer, display) ==
    IF s.fgImg = NULL
    THEN [buffer |-> IF v = "ProComposer" THEN SetCanvasSize(buffer, 0, 0)
                     ELSE buffer,
          display |-> SetCanvasSize(display, 0, 0)]
    ELSE LET work == IF v = "ProComposer" THEN buffer ELSE DefaultCanvas
             shown(composed) ==
                [buffer |-> IF v = "ProComposer" THEN composed ELSE buffer,
                 display |-> CropOutput(v, display, composed, s.transform.crop,
                                        s.isCropping)]
         IN  Only({shown(composed) : composed \in {Composite(v, s, work)}})

processComposite(v, s, buffer, display) ==
    IF s.fgImg = NULL
    THEN [buffer |-> buffer, display |-> display]
    ELSE LET work == IF v = "ProComposer" THEN buffer ELSE DefaultCanvas
             shown(composed) ==
                [buffer |-> IF v = "ProComposer" THEN composed ELSE buffer,
                 display |-> CropOutput(v, display, composed, s.transform.crop,
                                        s.isCropping)]
         IN  Only({shown(composed) : composed \in {Composite(v, s, work)}})

(***************************************************************************)
(* The session state.                                                      *)
(***************************************************************************)
VARIABLES
    variant,            \* which front-end runs
    fgImg,              \* decoded foreground image, or NULL
    bgImg,              \* decoded background image, or NULL
    backgroundSrc,      \* the URL the background was decoded from
    status,             \* ProcessingStatus
    aiPrompt,           \* the prompt text, a sequence of characters
    chromaSettings,
    imageAdjustments,
    transformSettings,  \* rotate .. panY and the crop rect
    isCropping,         \* the interactive-crop flag
    requests,           \* the generation requests issued, in order of issue
    rafQueue,           \* AIComposer: snapshots closed over by the
                        \* processComposite callbacks waiting for a frame
    displayCanvas,      \* the canvas on screen
    bufferCanvas,       \* ProComposer: bufferCanvasRef.current
    dragState,          \* the crop drag in progress: its handle and the crop
                        \* rect snapshot taken on mouse-down
    edits,              \* settings edits committed so far
    rendered,           \* the snapshot the latest pipeline run worked on
    lastOp,             \* the handler that ran last, and whether it entered
                        \* render / processComposite
    exportSettings,     \* AIComposer: format, quality, maxSizeKB, scale
    exportRun,          \* AIComposer: the handleExport call in progress
    downloadUrl,        \* AIComposer: the blob offered for download, or NoBlob
    probe,              \* the pixel loop run on sample pixels: its inputs and
                        \* what it has written
    stagesRun,          \* the pipeline stages the handler that ran last
                        \* executed
    isCameraActive,     \* TeamPhotoEditor: the camera flag
    cameraTasks,        \* TeamPhotoEditor: the getUserMedia calls and frame
                        \* decodes started, with what became of each
    srcObject,          \* the stream attached to the video element, or 0
    liveTracks          \* the streams whose tracks have not been stopped

vars ==
    <<variant, fgImg, bgImg, backgroundSrc, status, aiPrompt, chromaSettings,
      imageAdjustments, transformSettings, isCropping, requests, rafQueue,
      displayCanvas, bufferCanvas, dragState, edits, rendered, lastOp,
      exportSettings, exportRun, downloadUrl, probe, stagesRun,
      isCameraActive, cameraTasks, srcObject, liveTracks>>

sessionVars == <<status, aiPrompt, requests>>

settingVars == <<chromaSettings, imageAdjustments, transformSettings, isCropping>>

imageVars == <<fgImg, bgImg, backgroundSrc>>

dragVars == <<dragState, edits>>

exportVars == <<exportSettings, exportRun, downloadUrl>>

cameraVars == <<isCameraActive, cameraTasks, srcObject, liveTracks>>

(***************************************************************************)
(* Initial values of the useState hooks.                                   *)
(***************************************************************************)
KeyGreenScreen == <<"#", "0", "0", "b", "1", "4", "0">>

KeyPureGreen == <<"#", "0", "0", "F", "F", "0", "0">>

KeyBlue == <<"#", "0", "0", "0", "0", "f", "f">>

InitialChroma(v) ==
    IF v = "AIComposer"
    THEN [similarity |-> 40, smoothness |-> 8, spill |-> 10, keyColor |-> KeyPureGreen]
    ELSE [similarity |-> 35, smoothness |-> 10, spill |-> 10, keyColor |-> KeyGreenScreen]

DefaultAdjustments ==
    [exposure |-> 0, brilliance |-> 0, highlights |-> 0, shadows |-> 0,
     contrast |-> 0, brightness |-> 0, blackPoint |-> 0, saturation |-> 0,
     warmth |-> 0, tint |-> 0, sharpness |-> 0]

FullCrop == [x |-> 0, y |-> 0, width |-> 20, height |-> 20]

DefaultTransform ==
    [rotate |-> 0, vertical |-> 0, horizontal |-> 0, scale |-> 100,
     panX |-> 0, panY |-> 0, crop |-> FullCrop]

NoSrc == [kind |-> "none", req |-> 0, img |-> NULL]

NoDrag == [handle |-> "none", startCrop |-> FullCrop]

NoRun == [fgImg |-> NULL]

\* useState<ExportSettings>: quality in hundredths, scale in tenths,
\* maxSizeKB 0 when undefined.
DefaultExport ==
    [format |-> "image/png", quality |-> 90, maxSizeKB |-> 0, scale |-> 10]

NoExport == [pc |-> "idle"]

\* A null Blob
NoBlob == [size |-> NULL]

\* The pixel loop has not been run on a sample.
NoProbe == [stage |-> "none"]

InitSession ==
    /\ variant \in Variants
    /\ fgImg = NULL
    /\ bgImg = NULL
    /\ backgroundSrc = NoSrc
    /\ status = "IDLE"
    /\ aiPrompt = <<>>
    /\ chromaSettings = InitialChroma(variant)
    /\ imageAdjustments = DefaultAdjustments
    /\ transformSettings = DefaultTransform
    /\ isCropping = FALSE
    /\ requests = <<>>
    /\ rafQueue = <<>>
    /\ displayCanvas = DefaultCanvas
    /\ bufferCanvas = DefaultCanvas
    /\ dragState = NoDrag
    /\ edits = 0
    /\ rendered = NoRun
    /\ stagesRun = <<>>
    /\ exportSettings = DefaultExport
    /\ exportRun = NoExport
    /\ downloadUrl = NoBlob
    /\ isCameraActive = FALSE
    /\ cameraTasks = <<>>
    /\ srcObject = 0
    /\ liveTracks = {}
    \* the effect runs once on mount; AIComposer's does nothing without fgImg
    /\ lastOp = [op |-> "mount", ran |-> variant \in SyncVariants]

Init == InitSession /\ probe = NoProbe

(***************************************************************************)
(* The effect on [render] / [processComposite, fgImg].                     *)
(***************************************************************************)
\* The stages of render / processComposite, in the order of the code:
\* backdrop, the pixel loop (for each pixel key, then spill, then tone),
\* perspective, overlay (the draw under pan, rotate and scale), output.
\* ChromaStudio has no perspective stage.
\* A pipeline that composites the foreground before it is warped.
PipelineStagesOverlayFirst(v) ==
    LET runs(stage) == v # "ChromaStudio" \/ stage # "perspective"
    IN  SelectSeq(<<"backdrop", "key", "spill", "tone", "overlay",
                    "perspective", "crop">>, runs)

PipelineStages(v) ==
    LET runs(stage) == v # "ChromaStudio" \/ stage # "perspective"
    IN  SelectSeq(<<"backdrop", "key", "spill", "tone", "perspective",
                    "overlay", "crop">>, runs)

\* The stages a call on the snapshot `s` executes: none without a
\* foreground, otherwise every one; no stage is conditional on which
\* dependency changed.
StagesOf(s) == IF s.fgImg = NULL THEN <<>> ELSE PipelineStages(variant)

\* What a render callback created now closes over.
Snapshot ==
    [fgImg |-> fgImg, bgImg |-> bgImg, chroma |-> chromaSettings,
     adjust |-> imageAdjustments, transform |-> transformSettings,
     isCropping |-> isCropping]

\* requestAnimationFrame(cb): callbacks run in the order they were requested.
RequestFrameLifo(queue, cb) == <<cb>> \o queue

RequestAnimationFrame(queue, cb) == Append(queue, cb)

\* The effect after a commit that replaced one of the callback's
\* dependencies; `op` names the handler that caused the commit.
RenderEffect(op) ==
    IF variant \in SyncVariants
    THEN /\ \E out \in {processComposite(variant, Snapshot', bufferCanvas,
                                          displayCanvas)} :
                /\ displayCanvas' = out.display
                /\ bufferCanvas' = out.buffer
         /\ rendered' = IF fgImg' # NULL THEN Snapshot' ELSE rendered
         /\ rafQueue' = rafQueue
         /\ lastOp' = [op |-> op, ran |-> TRUE]
         /\ stagesRun' = StagesOf(Snapshot')
    ELSE /\ rafQueue' = IF fgImg' # NULL
                        THEN RequestAnimationFrame(rafQueue, Snapshot')
                        ELSE rafQueue
         /\ UNCHANGED <<displayCanvas, bufferCanvas, rendered>>
         /\ lastOp' = [op |-> op, ran |-> FALSE]
         /\ stagesRun' = <<>>

\* A handler that replaces none of the dependencies: no effect runs.
NoRender(op) ==
    /\ UNCHANGED <<rafQueue, displayCanvas, bufferCanvas, rendered>>
    /\ lastOp' = [op |-> op, ran |-> FALSE]
    /\ stagesRun' = <<>>

\* AIComposer: the browser runs the oldest waiting callback.
RunFrame ==
    /\ rafQueue # <<>>
    /\ \E out \in {processComposite(variant, Head(rafQueue), bufferCanvas,
                                     displayCanvas)} :
           /\ displayCanvas' = out.display
           /\ bufferCanvas' = out.buffer
    /\ rendered' = Head(rafQueue)
    /\ rafQueue' = Tail(rafQueue)
    /\ lastOp' = [op |-> "frame", ran |-> TRUE]
    /\ stagesRun' = StagesOf(Head(rafQueue))
    /\ UNCHANGED <<variant, probe, cameraVars, exportVars, imageVars, sessionVars, settingVars, dragVars>>

\* ChromaStudio hides its control panel until a foreground is loaded.
PanelReachable == variant = "ChromaStudio" => fgImg # NULL

(***************************************************************************)
(* Image uploads.  The file is decoded off-screen; the state changes in    *)
(* the image's onload callback.                                            *)
(***************************************************************************)
handleForegroundUpload(img) ==
    /\ img # fgImg
    /\ fgImg' = img
    /\ UNCHANGED <<variant, probe, cameraVars, exportVars, bgImg, backgroundSrc, sessionVars, settingVars, dragVars>>
    /\ RenderEffect("fgLoaded")

handleBackgroundUpload(img) ==
    /\ PanelReachable
    /\ img # bgImg
    /\ bgImg' = img
    /\ backgroundSrc' = [kind |-> "blob", req |-> 0, img |-> img]
    /\ UNCHANGED <<variant, probe, cameraVars, exportVars, fgImg, sessionVars, settingVars, dragVars>>
    /\ RenderEffect("bgLoaded")

(***************************************************************************)
(* AI background generation.                                               *)
(***************************************************************************)
Whitespace == {" ", "\t", "\n"}

RECURSIVE TrimStart(_)
TrimStart(str) ==
    IF str # <<>> /\ Head(str) \in Whitespace THEN TrimStart(Tail(str)) ELSE str

RECURSIVE TrimEnd(_)
TrimEnd(str) ==
    IF str # <<>> /\ str[Len(str)] \in Whitespace
    THEN TrimEnd(SubSeq(str, 1, Len(str) - 1))
    ELSE str

\* String.prototype.trim
Trim(str) == TrimEnd(TrimStart(str))

\* !aiPrompt without the trim
IsBlankNoTrim(prompt) == prompt = <<>>

\* !aiPrompt.trim()
IsBlank(prompt) == Trim(prompt) = <<>>

Prompts == {<<>>, <<" ", "\t">>, <<" ", "a", " ">>}

setAiPrompt(prompt) ==
    /\ PanelReachable
    /\ aiPrompt' = prompt
    /\ UNCHANGED <<variant, probe, cameraVars, exportVars, imageVars, status, requests, settingVars, dragVars>>
    /\ NoRender("prompt")

\* Whether the user can invoke the handler: the Generate button's disabled
\* attribute, where the variant has one, and AIComposer's Enter key, which
\* has no condition.
GenerateEnabled ==
    CASE variant = "TeamPhotoEditor" -> status # "GENERATING_BG"
      [] variant = "ChromaStudio" ->
            /\ PanelReachable
            /\ status # "GENERATING_BG"
            /\ ~IsBlank(aiPrompt)
      [] variant = "AIComposer" -> TRUE
      [] variant = "ProComposer" -> TRUE

handleGenerateBackground ==
    /\ GenerateEnabled
    /\ IF IsBlank(aiPrompt)
       THEN UNCHANGED <<status, requests>>
       ELSE /\ Len(requests) < MaxRequests
            /\ status' = "GENERATING_BG"
            /\ requests' = Append(requests,
                    [prompt |-> aiPrompt, st |-> "calling", url |-> NoSrc])
    /\ UNCHANGED <<variant, probe, cameraVars, exportVars, imageVars, aiPrompt, settingVars, dragVars>>
    /\ NoRender("generate")

\* The awaited call resolves with a data URL; the handler starts decoding it.
GenerationResolves(r, img) ==
    /\ r \in DOMAIN requests
    /\ requests[r].st = "calling"
    /\ requests' = [requests EXCEPT ![r].st = "decoding",
                        ![r].url = [kind |-> "data", req |-> r, img |-> img]]
    /\ UNCHANGED <<variant, probe, cameraVars, exportVars, imageVars, status, aiPrompt, settingVars, dragVars>>
    /\ NoRender("resolved")

\* A catch block that also drops the background.
CatchClearsBackground ==
    /\ status' = "ERROR"
    /\ bgImg' = NULL
    /\ backgroundSrc' = NoSrc

\* catch { setStatus(ERROR) }
CatchGenerationError ==
    /\ status' = "ERROR"
    /\ UNCHANGED <<bgImg, backgroundSrc>>

\* The awaited call rejects (service error, or a response with no image part).
GenerationRejects(r) ==
    /\ r \in DOMAIN requests
    /\ requests[r].st = "calling"
    /\ requests' = [requests EXCEPT ![r].st = "failed"]
    /\ CatchGenerationError
    /\ UNCHANGED <<variant, probe, cameraVars, exportVars, fgImg, aiPrompt, settingVars, dragVars>>
    /\ NoRender("rejected")

\* img.onload of a generated image
ImageLoaded(r) ==
    /\ r \in DOMAIN requests
    /\ requests[r].st = "decoding"
    /\ requests' = [requests EXCEPT ![r].st = "installed"]
    /\ bgImg' = requests[r].url.img
    /\ backgroundSrc' = requests[r].url
    /\ status' = "IDLE"
    /\ UNCHANGED <<variant, probe, cameraVars, exportVars, fgImg, aiPrompt, settingVars, dragVars>>
    /\ RenderEffect("bgLoaded")

\* The data URL does not decode: the image's error event fires, and no
\* front-end sets img.onerror, so nothing runs.
ImageFails(r) ==
    /\ r \in DOMAIN requests
    /\ requests[r].st = "decoding"
    /\ requests' = [requests EXCEPT ![r].st = "undecodable"]
    /\ UNCHANGED <<variant, probe, cameraVars, exportVars, imageVars, status, aiPrompt, settingVars, dragVars>>
    /\ NoRender("decodeError")

(***************************************************************************)
(* The settings controls.                                                  *)
(***************************************************************************)
ChromaChoices(v) ==
    {InitialChroma(v),
     [similarity |-> 10, smoothness |-> 0, spill |-> 0, keyColor |-> KeyBlue]}

\* AIComposer has a slider for every control; the others for exposure,
\* contrast, saturation and warmth only.
AdjustChoices ==
    {DefaultAdjustments,
     IF variant = "AIComposer"
     THEN [DefaultAdjustments EXCEPT !.brightness = 20]
     ELSE [DefaultAdjustments EXCEPT !.warmth = 20]}

\* Values of the sliders of the Geometry section; the crop rect is kept.
TransformChoices ==
    {DefaultTransform, [DefaultTransform EXCEPT !.panX = 50]}

setChromaSettings(c) ==
    /\ PanelReachable
    /\ edits < MaxEdits
    /\ c # chromaSettings
    /\ chromaSettings' = c
    /\ edits' = edits + 1
    /\ UNCHANGED <<variant, probe, cameraVars, exportVars, imageVars, sessionVars, imageAdjustments,
                   transformSettings, isCropping, dragState>>
    /\ RenderEffect("chroma")

setImageAdjustments(a) ==
    /\ PanelReachable
    /\ edits < MaxEdits
    /\ a # imageAdjustments
    /\ imageAdjustments' = a
    /\ edits' = edits + 1
    /\ UNCHANGED <<variant, probe, cameraVars, exportVars, imageVars, sessionVars, chromaSettings,
                   transformSettings, isCropping, dragState>>
    /\ RenderEffect("adjust")

setTransformSettings(t) ==
    /\ PanelReachable
    /\ edits < MaxEdits
    /\ [t EXCEPT !.crop = transformSettings.crop] # transformSettings
    /\ transformSettings' = [t EXCEPT !.crop = transformSettings.crop]
    /\ edits' = edits + 1
    /\ UNCHANGED <<variant, probe, cameraVars, exportVars, imageVars, sessionVars, chromaSettings,
                   imageAdjustments, isCropping, dragState>>
    /\ RenderEffect("transform")

\* The Reset link of the adjustments section (ChromaStudio has none).
resetAdjustments ==
    /\ variant # "ChromaStudio"
    /\ edits < MaxEdits
    /\ imageAdjustments' = DefaultAdjustments
    /\ edits' = edits + 1
    /\ UNCHANGED <<variant, probe, cameraVars, exportVars, imageVars, sessionVars, chromaSettings,
                   transformSettings, isCropping, dragState>>
    /\ RenderEffect("resetAdjustments")

\* The Reset link of the geometry section: AIComposer also resets the crop
\* rect and leaves crop mode, ProComposer keeps both.
resetTransforms ==
    /\ variant \in CropEditorVariants
    /\ edits < MaxEdits
    /\ transformSettings' =
          IF variant = "AIComposer" THEN DefaultTransform
          ELSE [DefaultTransform EXCEPT !.crop = transformSettings.crop]
    /\ isCropping' = IF variant = "AIComposer" THEN FALSE ELSE isCropping
    /\ edits' = edits + 1
    /\ UNCHANGED <<variant, probe, cameraVars, exportVars, imageVars, sessionVars, chromaSettings,
                   imageAdjustments, dragState>>
    /\ RenderEffect("resetTransforms")

\* A toggle that also puts the crop rect back to the full frame.
toggleCropResets ==
    /\ PanelReachable
    /\ edits < MaxEdits
    /\ isCropping' = ~isCropping
    /\ transformSettings' = [transformSettings EXCEPT !.crop = FullCrop]
    /\ edits' = edits + 1
    /\ UNCHANGED <<variant, probe, cameraVars, exportVars, imageVars, sessionVars, chromaSettings,
                   imageAdjustments, dragState>>
    /\ RenderEffect("toggleCrop")

\* onClick={() => setIsCropping(!isCropping)}
toggleCrop ==
    /\ PanelReachable
    /\ edits < MaxEdits
    /\ isCropping' = ~isCropping
    /\ edits' = edits + 1
    /\ UNCHANGED <<variant, probe, cameraVars, exportVars, imageVars, sessionVars, chromaSettings,
                   imageAdjustments, transformSettings, dragState>>
    /\ RenderEffect("toggleCrop")

(***************************************************************************)
(* The crop editor.  A drag is mouse-down on the crop box or on one of its *)
(* corner handles, mouse-moves, mouse-up.  deltaX and deltaY are the       *)
(* pointer's displacement since mouse-down as a fraction of the overlay,   *)
(* here in twentieths like the crop rect itself.                           *)
(***************************************************************************)
Handles == {"move", "nw", "ne", "sw", "se"}

\* handle.includes(ch)
Includes(handle, ch) ==
    CASE ch = "n" -> handle \in {"nw", "ne"}
      [] ch = "s" -> handle \in {"sw", "se"}
      [] ch = "w" -> handle \in {"nw", "sw"}
      [] ch = "e" -> handle \in {"ne", "se"}

\* AIComposer's moveHandler
NewCropAIComposer(handle, startCrop, deltaX, deltaY) ==
    IF handle = "move"
    THEN [startCrop EXCEPT
            !.x = Min(Max(0, startCrop.x + deltaX), 20 - startCrop.width),
            !.y = Min(Max(0, startCrop.y + deltaY), 20 - startCrop.height)]
    ELSE LET dW == Min(deltaX, startCrop.width - 1)
             dN == Min(deltaY, startCrop.height - 1)
         IN  [x |-> IF Includes(handle, "w") THEN Max(0, startCrop.x + dW)
                    ELSE startCrop.x,
              width |-> IF Includes(handle, "w") THEN startCrop.width - dW
                        ELSE Min(Max(1, startCrop.width + deltaX), 20 - startCrop.x),
              y |-> IF Includes(handle, "n") THEN Max(0, startCrop.y + dN)
                    ELSE startCrop.y,
              height |-> IF Includes(handle, "n") THEN startCrop.height - dN
                         ELSE Min(Max(1, startCrop.height + deltaY), 20 - startCrop.y)]

\* ProComposer's move
NewCropProComposer(handle, sC, dx, dy) ==
    IF handle = "move"
    THEN [sC EXCEPT !.x = Max(0, Min(20 - sC.width, sC.x + dx)),
                    !.y = Max(0, Min(20 - sC.height, sC.y + dy))]
    ELSE LET nx == IF Includes(handle, "w")
                   THEN Max(0, Min(sC.x + sC.width - 1, sC.x + dx))
                   ELSE sC.x
             ny == IF Includes(handle, "n")
                   THEN Max(0, Min(sC.y + sC.height - 1, sC.y + dy))
                   ELSE sC.y
         IN  [x |-> nx,
              width |-> IF Includes(handle, "w") THEN sC.width - (nx - sC.x)
                        ELSE Max(1, Min(20 - sC.x, sC.width + dx)),
              y |-> ny,
              height |-> IF Includes(handle, "n") THEN sC.height - (ny - sC.y)
                         ELSE Max(1, Min(20 - sC.y, sC.height + dy))]

NewCrop(v, handle, startCrop, deltaX, deltaY) ==
    IF v = "AIComposer"
    THEN NewCropAIComposer(handle, startCrop, deltaX, deltaY)
    ELSE NewCropProComposer(handle, startCrop, deltaX, deltaY)

\* onMouseDown on the crop box or a handle: the overlay is on screen in crop
\* mode with a foreground loaded.
handleCropDrag(handle) ==
    /\ variant \in CropEditorVariants
    /\ isCropping
    /\ fgImg # NULL
    /\ dragState = NoDrag
    /\ dragState' = [handle |-> handle, startCrop |-> transformSettings.crop]
    /\ UNCHANGED <<variant, probe, cameraVars, exportVars, imageVars, sessionVars, settingVars, edits>>
    /\ NoRender("mousedown")

moveHandler(deltaX, deltaY) ==
    /\ dragState # NoDrag
    /\ edits < MaxEdits
    /\ transformSettings' =
          [transformSettings EXCEPT !.crop =
              NewCrop(variant, dragState.handle, dragState.startCrop, deltaX, deltaY)]
    /\ edits' = edits + 1
    /\ UNCHANGED <<variant, probe, cameraVars, exportVars, imageVars, sessionVars, chromaSettings,
                   imageAdjustments, isCropping, dragState>>
    /\ RenderEffect("mousemove")

upHandler ==
    /\ dragState # NoDrag
    /\ dragState' = NoDrag
    /\ UNCHANGED <<variant, probe, cameraVars, exportVars, imageVars, sessionVars, settingVars, edits>>
    /\ NoRender("mouseup")

(***************************************************************************)
(* AIComposer's export.  handleExport runs in steps separated by awaits:   *)
(* the 50 ms timeout, then one toBlob callback per encode.  A quality is   *)
(* a double; it is carried as its value in hundredths, h, and, where the   *)
(* handler compares it with 0.1, the sign r of the rounding error that the *)
(* repeated subtraction of 0.1 has left on it.                             *)
(***************************************************************************)
maxAttempts == 10

FloorQuality == [h |-> 10, r |-> 0]

\* currentQuality < 0.1
QualityBelowFloor(q) == q.h < 10 \/ (q.h = 10 /\ q.r < 0)

\* currentQuality <= 0.1
QualityAtFloor(q) == q.h < 10 \/ (q.h = 10 /\ q.r <= 0)

\* A search step that does not hold the quality at the floor.
NoClampQuality(q) == q

\* if (currentQuality < 0.1) currentQuality = 0.1
ClampQuality(q) == IF QualityBelowFloor(q) THEN FloorQuality ELSE q

\* The signs the rounding error of a currentQuality of h hundredths can
\* have, where it is seen: next to 0.1.
Residues(h) == IF h = 10 THEN {-1, 0, 1} ELSE {0}

\* Slider and input values of the Export Settings section.
ExportChoices ==
    {DefaultExport,
     [format |-> "image/jpeg", quality |-> 100, maxSizeKB |-> 50, scale |-> 5]}

setExportSettings(e) ==
    /\ variant = "AIComposer"
    /\ e # exportSettings
    /\ exportSettings' = e
    /\ UNCHANGED <<variant, probe, cameraVars, imageVars, sessionVars, settingVars, dragVars,
                   exportRun, downloadUrl>>
    /\ NoRender("exportSettings")

\* onClick of Export Image, up to the first await.
handleExport ==
    /\ variant = "AIComposer"
    /\ fgImg # NULL
    /\ status # "COMPRESSING"
    /\ exportRun.pc \in {"idle", "done"}
    /\ status' = "COMPRESSING"
    /\ downloadUrl' = NoBlob
    /\ exportRun' = [pc |-> "waiting", settings |-> exportSettings]
    /\ UNCHANGED <<variant, probe, cameraVars, imageVars, aiPrompt, requests, settingVars, dragVars,
                   exportSettings>>
    /\ NoRender("export")

\* The export canvas: the display canvas drawn at `scale` tenths of its size.
ExportCanvas(display, scale) ==
    LET finalW == (display.width * scale) \div 10
        finalH == (display.height * scale) \div 10
    IN  DrawImage(SetCanvasSize(DefaultCanvas, finalW, finalH), display,
                  0, 0, 10 * display.width, 10 * display.height,
                  0, 0, 10 * finalW, 10 * finalH, 10)

\* After the timeout: the display canvas is copied and the first encode is
\* requested.  `shown` is the snapshot the copied canvas was rendered from.
ExportTimeout ==
    /\ exportRun.pc = "waiting"
    /\ exportRun' =
          [pc |-> "encoding", settings |-> exportRun.settings,
           shown |-> rendered,
           exportCanvas |-> ExportCanvas(displayCanvas, exportRun.settings.scale),
           currentQuality |-> [h |-> exportRun.settings.quality, r |-> 0],
           attempts |-> 0,
           resultBlob |-> NoBlob]
    /\ UNCHANGED <<variant, probe, cameraVars, imageVars, sessionVars, settingVars, dragVars,
                   exportSettings, downloadUrl>>
    /\ NoRender("exportTimeout")

\* The toBlob callback: null for a canvas without pixels, else a blob whose
\* size is over the target or not.
EncodedBlob(run, over) ==
    IF run.exportCanvas.width = 0 \/ run.exportCanvas.height = 0 THEN NoBlob
    ELSE [size |-> IF over THEN "overTarget" ELSE "withinTarget"]

\* The handler from the return of one `await tryCompress` to the next
\* await or to its end.
EncodeResolves(over) ==
    /\ exportRun.pc = "encoding"
    /\ over => exportRun.settings.maxSizeKB > 0
    /\ \E blob \in {EncodedBlob(exportRun, over)} :
          /\ blob = NoBlob => ~over
          /\ LET leftLoop == /\ exportRun.attempts > 0
                             /\ QualityAtFloor(exportRun.currentQuality)
                             /\ blob.size = "overTarget"
                 again == /\ exportRun.settings.maxSizeKB > 0
                          /\ blob # NoBlob
                          /\ ~leftLoop
                          /\ blob.size = "overTarget"
                          /\ exportRun.attempts < maxAttempts
             IN  IF again
                 THEN /\ \E r \in Residues(exportRun.currentQuality.h - 10) :
                            exportRun' =
                              [exportRun EXCEPT
                                 !.attempts = @ + 1,
                                 !.currentQuality =
                                    ClampQuality([h |-> @.h - 10, r |-> r]),
                                 !.resultBlob = blob]
                      /\ UNCHANGED <<status, downloadUrl>>
                 ELSE /\ exportRun' = [pc |-> "done"]
                      /\ downloadUrl' = blob
                      /\ status' = "DONE"
    /\ UNCHANGED <<variant, probe, cameraVars, imageVars, aiPrompt, requests, settingVars, dragVars,
                   exportSettings>>
    /\ NoRender("encoded")

\* <<deltaX, deltaY>> of the mouse-move events
DragDeltas == {<<-5, -5>>, <<15, 15>>}

(***************************************************************************)
(* The generation session: uploads, the prompt and the generation requests.*)
(***************************************************************************)
\* The picture the service answers the r-th request with: successive
\* requests get different pictures.
ResponseImage(r) == IF r % 2 = 1 THEN "aiOffice" ELSE "aiBeach"

Next ==
    \/ handleForegroundUpload("portrait")
    \/ \E prompt \in Prompts : setAiPrompt(prompt)
    \/ handleGenerateBackground
    \/ \E r \in 1..MaxRequests : GenerationResolves(r, ResponseImage(r))
    \/ \E r \in 1..MaxRequests : GenerationRejects(r)
    \/ \E r \in 1..MaxRequests : ImageLoaded(r)
    \/ \E r \in 1..MaxRequests : ImageFails(r)
    \/ RunFrame

Spec == Init /\ [][Next]_vars

\* The service answers every call and the browser ends every decode: each
\* awaited promise settles, and each image fires its load or error event.
SpecLive ==
    /\ Spec
    /\ \A r \in 1..MaxRequests :
          /\ WF_vars(GenerationResolves(r, ResponseImage(r)) \/ GenerationRejects(r))
          /\ WF_vars(ImageLoaded(r) \/ ImageFails(r))

(***************************************************************************)
(* Properties of the generation session.                                   *)
(***************************************************************************)
Completed(r) == requests[r].st \in {"installed", "failed"}

\* C1: when a second generation request is issued while an earlier one is
\* outstanding, then once both have completed the installed background is
\* the one of the most recently issued request: the earlier response, if it
\* arrives later, is discarded.
C1_LatestRequestWins ==
    LET last == Len(requests)
    IN  ( /\ last >= 2
          /\ \A r \in DOMAIN requests : Completed(r)
          /\ requests[last].st = "installed" )
        => backgroundSrc = requests[last].url

\* Both requests were in flight together, the later response was installed
\* first and the earlier response then replaced it.
C1_StaleResponseInstalled ==
    /\ Len(requests) = 2
    /\ requests[1].st = "installed"
    /\ requests[2].st = "installed"
    /\ backgroundSrc = requests[1].url
    /\ bgImg = requests[1].url.img
    /\ bgImg # requests[2].url.img

\* C2: when the generation call fails, bgImg and backgroundSrc keep their
\* values, nothing is drawn, and status becomes ERROR.
C2_FailureKeepsBackground ==
    [][ (\E r \in DOMAIN requests :
            /\ requests[r].st = "calling"
            /\ r \in DOMAIN requests'
            /\ requests'[r].st = "failed")
        => /\ bgImg' = bgImg
           /\ backgroundSrc' = backgroundSrc
           /\ displayCanvas' = displayCanvas
           /\ status' = "ERROR" ]_vars

\* A request has just failed while a generated background was installed.
C2_FailedWithBackground ==
    /\ lastOp.op = "rejected"
    /\ \E r \in DOMAIN requests : requests[r].st = "failed"
    /\ status = "ERROR"
    /\ bgImg # NULL
    /\ backgroundSrc.kind = "data"

\* Some character of the prompt is not whitespace.
HasInk(prompt) == \E i \in DOMAIN prompt : prompt[i] \notin Whitespace

\* C6: a generation request is issued only for a prompt that is non-empty
\* after trimming; invoking generation with a blank or whitespace-only prompt
\* issues no request and leaves the status and the background unchanged.
C6_BlankPromptIssuesNothing ==
    [][ /\ Len(requests') > Len(requests) =>
            /\ HasInk(aiPrompt)
            /\ requests'[Len(requests')].prompt = aiPrompt
        /\ (lastOp'.op = "generate" /\ ~HasInk(aiPrompt)) =>
            UNCHANGED <<requests, status, bgImg, backgroundSrc, displayCanvas>>
      ]_vars

\* Generation has just been invoked with a whitespace-only prompt.
C6_InvokedWithWhitespace ==
    /\ lastOp.op = "generate"
    /\ aiPrompt # <<>>
    /\ ~HasInk(aiPrompt)

(***************************************************************************)
(* The editing session: images, settings and the render they trigger.      *)
(***************************************************************************)
NextRender ==
    \/ handleForegroundUpload("portrait")
    \/ handleBackgroundUpload("cutout")
    \/ \E c \in ChromaChoices(variant) : setChromaSettings(c)
    \/ \E a \in AdjustChoices : setImageAdjustments(a)
    \/ \E t \in TransformChoices : setTransformSettings(t)
    \/ resetAdjustments
    \/ resetTransforms
    \/ toggleCrop
    \/ RunFrame

SpecRender == Init /\ [][NextRender]_vars

(***************************************************************************)
(* The crop session: crop mode, crop drags and the output they produce.    *)
(***************************************************************************)
NextCrop ==
    \/ handleForegroundUpload("wide")
    \/ toggleCrop
    \/ \E handle \in Handles : handleCropDrag(handle)
    \/ \E delta \in DragDeltas : moveHandler(delta[1], delta[2])
    \/ upHandler
    \/ RunFrame

SpecCrop == Init /\ [][NextCrop]_vars

(***************************************************************************)
(* Properties of the render.                                               *)
(***************************************************************************)
\* The display a run on the snapshot `s` produces starting from canvases as
\* created.
FreshRender(s) == processComposite(variant, s, DefaultCanvas, DefaultCanvas).display

\* C3: while fgImg is null a render is a no-op: no canvas is resized or
\* drawn on.
C3_NoForegroundNoRender ==
    [][ fgImg' = NULL =>
            /\ displayCanvas' = displayCanvas
            /\ bufferCanvas' = bufferCanvas
            /\ rendered' = rendered ]_vars

\* A background was installed and the effect ran render with no foreground.
C3_RenderedWithoutForeground ==
    /\ fgImg = NULL
    /\ bgImg # NULL
    /\ lastOp = [op |-> "bgLoaded", ran |-> TRUE]
    /\ displayCanvas = DefaultCanvas

\* C4: every replacement of a setting, the crop-mode flag or an image
\* schedules a pipeline run, and once every scheduled run has executed the
\* display holds the render of the latest values.
C4_DisplayIsLatest ==
    (fgImg # NULL /\ rafQueue = <<>>) =>
        /\ rendered = Snapshot
        /\ displayCanvas = FreshRender(Snapshot)

\* AIComposer has executed every scheduled run after several edits.
C4_AllRunsExecuted ==
    /\ variant = "AIComposer"
    /\ lastOp.op = "frame"
    /\ rafQueue = <<>>
    /\ edits >= 2
    /\ bgImg # NULL
    /\ chromaSettings # InitialChroma(variant)

\* C5: the output of a run depends only on the inputs the run worked on,
\* not on what earlier runs left on the display canvas or on the reused
\* buffer canvas.
C5_OutputDependsOnInputsOnly ==
    rendered # NoRun => displayCanvas = FreshRender(rendered)

\* ProComposer has rendered again on its used buffer, over a background with
\* a transparent region.
C5_RenderedOnUsedBuffer ==
    /\ variant = "ProComposer"
    /\ rendered # NoRun
    /\ edits >= 2
    /\ bgImg = "cutout"
    /\ bufferCanvas # DefaultCanvas

(***************************************************************************)
(* Properties of the crop.                                                 *)
(***************************************************************************)
CropContained(crop) ==
    /\ crop.x >= 0
    /\ crop.y >= 0
    /\ crop.x + crop.width <= 20
    /\ crop.y + crop.height <= 20
    /\ crop.width >= 1
    /\ crop.height >= 1

\* C7: after any sequence of crop drags from the full frame the crop rect
\* satisfies x >= 0, y >= 0, x + width <= 1, y + height <= 1, width >= 0.05
\* and height >= 0.05.
C7_CropStaysContained == CropContained(transformSettings.crop)

\* A west or north handle was dragged outward past the frame's edge.
C7_CropEscapes ==
    /\ lastOp.op = "mousemove"
    /\ transformSettings.crop.x = 0
    /\ transformSettings.crop.x + transformSettings.crop.width > 20

\* Math.round of n / 20
RoundTwentieths(n) == (n + 10) \div 20

\* The pixels of the display are those of the composite from (ox, oy) on.
ShowsSubRectangle(display, composite, ox, oy) ==
    \A p \in Coords(display.width, display.height) :
        PixelAt(display, p[1], p[2]) = PixelAt(composite, ox + p[1], oy + p[2])

\* The last run was in normal mode with a contained crop.
CroppedRun ==
    /\ rendered # NoRun
    /\ ~rendered.isCropping
    /\ CropContained(rendered.transform.crop)

\* C8, as stated: in normal mode the output of a contained crop on a W x H
\* composite is round(width * W) x round(height * H) and shows the
\* sub-rectangle at origin (x * W, y * H).
C8_CroppedOutputRounded ==
    CroppedRun =>
        LET crop == rendered.transform.crop
            full == Composite(variant, rendered, DefaultCanvas)
        IN  /\ displayCanvas.width = RoundTwentieths(crop.width * full.width)
            /\ displayCanvas.height = RoundTwentieths(crop.height * full.height)
            /\ ((crop.x * full.width) % 20 = 0 /\ (crop.y * full.height) % 20 = 0) =>
                  ShowsSubRectangle(displayCanvas, full,
                      (crop.x * full.width) \div 20, (crop.y * full.height) \div 20)

\* C8, amended: the output is floor(max(1, width * W)) x
\* floor(max(1, height * H)), and where x * W and y * H are whole it shows
\* the sub-rectangle at origin (x * W, y * H).
C8_CroppedOutputTruncated ==
    CroppedRun =>
        LET crop == rendered.transform.crop
            full == Composite(variant, rendered, DefaultCanvas)
        IN  /\ displayCanvas.width = Max(20, crop.width * full.width) \div 20
            /\ displayCanvas.height = Max(20, crop.height * full.height) \div 20
            /\ ((crop.x * full.width) % 20 = 0 /\ (crop.y * full.height) % 20 = 0) =>
                  ShowsSubRectangle(displayCanvas, full,
                      (crop.x * full.width) \div 20, (crop.y * full.height) \div 20)

\* A crop away from the origin was rendered in normal mode.
C8_CroppedAwayFromOrigin ==
    /\ CroppedRun
    /\ rendered.transform.crop = [x |-> 15, y |-> 0, width |-> 5, height |-> 20]
    /\ displayCanvas.width = 1
    /\ displayCanvas.height = 2
    /\ displayCanvas.pix # <<>>

\* C9: while isCropping is set the output is the full W x H composite,
\* whatever the crop rect.
C9_CropModeShowsFull ==
    (rendered # NoRun /\ rendered.isCropping) =>
        LET full == Composite(variant, rendered, DefaultCanvas)
        IN  /\ displayCanvas.width = full.width
            /\ displayCanvas.height = full.height
            /\ ShowsSubRectangle(displayCanvas, full, 0, 0)

\* A run in crop mode worked on a crop rect smaller than the frame.
C9_CropModeWithSmallCrop ==
    /\ rendered # NoRun
    /\ rendered.isCropping
    /\ rendered.transform.crop.width < 20
    /\ rendered.transform.crop.x > 0
    /\ lastOp.ran

\* C10: toggling crop mode changes only the isCropping flag, and toggling
\* again restores the output shown before.
C10_ToggleChangesOnlyFlag ==
    [][ (lastOp'.op = "toggleCrop" /\ isCropping' # isCropping) =>
            /\ UNCHANGED <<chromaSettings, imageAdjustments, transformSettings,
                           imageVars, sessionVars>>
            /\ (fgImg # NULL /\ rendered = Snapshot) =>
                  processComposite(variant, Snapshot, bufferCanvas',
                                   displayCanvas').display = displayCanvas
      ]_vars

\* Crop mode was left with a crop rect smaller than the frame.
C10_ToggledOffWithCrop ==
    /\ lastOp.op = "toggleCrop"
    /\ ~isCropping
    /\ transformSettings.crop # FullCrop
    /\ fgImg # NULL

(***************************************************************************)
(* The export session: a crop, the export settings and exports.            *)
(***************************************************************************)
NextExport ==
    \/ handleForegroundUpload("wide")
    \/ toggleCrop
    \/ handleCropDrag("sw")
    \/ moveHandler(15, 15)
    \/ upHandler
    \/ RunFrame
    \/ \E e \in ExportChoices : setExportSettings(e)
    \/ handleExport
    \/ ExportTimeout
    \/ \E over \in BOOLEAN : EncodeResolves(over)

SpecExport == Init /\ [][NextExport]_vars

QualityAtMost(q1, q2) == q1.h < q2.h \/ (q1.h = q2.h /\ q1.r <= q2.r)

\* The step requested another encode.
ReEncoded ==
    /\ exportRun.pc = "encoding"
    /\ exportRun'.pc = "encoding"
    /\ exportRun' # exportRun

\* C12: with a target size set the export search makes at most 10 re-encodes
\* after the initial encode, whatever sizes the encoder returns; each encode
\* uses a quality of at least 0.1 that is not above the one before, and a
\* re-encode only follows a result over the target.
C12_ExportSearchBounded ==
    [][ exportRun'.pc = "encoding" =>
            /\ exportRun'.attempts <= 10
            /\ ~QualityBelowFloor(exportRun'.currentQuality)
            /\ ReEncoded =>
                  /\ exportRun'.attempts = exportRun.attempts + 1
                  /\ QualityAtMost(exportRun'.currentQuality,
                                   exportRun.currentQuality)
                  /\ exportRun'.resultBlob.size = "overTarget"
                  /\ exportRun.settings.maxSizeKB > 0
      ]_vars

\* The search made its tenth re-encode, at the floor quality.
C12_TenthReEncode ==
    /\ exportRun.pc = "encoding"
    /\ exportRun.attempts = 10
    /\ exportRun.currentQuality = FloorQuality
    /\ exportRun.resultBlob.size = "overTarget"

\* The size of the display canvas in normal mode for the snapshot `s`,
\* times `scale` tenths.
CroppedExportSize(s, scale) ==
    LET fg == Decoded(s.fgImg)
        cropW == Max(20, s.transform.crop.width * fg.width) \div 20
        cropH == Max(20, s.transform.crop.height * fg.height) \div 20
    IN  [width |-> (cropW * scale) \div 10, height |-> (cropH * scale) \div 10]

\* C13: the raster handed to the encoder has the crop dimensions times the
\* export scale, also when the export is triggered in crop mode.
C13_ExportsCroppedRaster ==
    (/\ exportRun.pc = "encoding"
     /\ exportRun.shown # NoRun
     /\ CropContained(exportRun.shown.transform.crop)) =>
        LET size == CroppedExportSize(exportRun.shown, exportRun.settings.scale)
        IN  /\ exportRun.exportCanvas.width = size.width
            /\ exportRun.exportCanvas.height = size.height

\* An export in crop mode handed the uncropped frame to the encoder.
C13_ExportedFullFrameInCropMode ==
    /\ exportRun.pc = "encoding"
    /\ exportRun.shown # NoRun
    /\ exportRun.shown.isCropping
    /\ exportRun.shown.transform.crop = [x |-> 15, y |-> 0, width |-> 5, height |-> 20]
    /\ exportRun.settings.scale = 10
    /\ exportRun.exportCanvas.width = 4
    /\ exportRun.exportCanvas.height = 2

(***************************************************************************)
(* Properties of the pixel pipeline.                                       *)
(***************************************************************************)
SameRaster(a, b) ==
    /\ a.width = b.width
    /\ a.height = b.height
    /\ \A p \in Coords(a.width, a.height) :
            PixelAt(a, p[1], p[2]) = PixelAt(b, p[1], p[2])

IdentityTransform(t) ==
    /\ t.rotate = 0 /\ t.scale = 100 /\ t.panX = 0 /\ t.panY = 0
    /\ t.vertical = 0 /\ t.horizontal = 0

\* The foreground pixel p after chroma key and spill only.
KeyedOnly(v, p, key, c) ==
    LET keyed(dsq) ==
            IF StoredAlpha(v, dsq, c) = 0 THEN Transparent
            ELSE <<p[1],
                   IF SpillApplies(v, dsq, c)
                   THEN StoreClampedHalves(Min(2 * p[2], p[1] + p[3]))
                   ELSE p[2],
                   p[3], StoredAlpha(v, dsq, c)>>
    IN  Only({keyed(dsq) : dsq \in {DistSq(p, key)}})

\* Chroma key + spill, backdrop and overlay only: each keyed pixel laid over
\* the backdrop pixel at its own position.
KeyOnlyComposite(v, s) ==
    LET fg == Decoded(s.fgImg)
        laid(backdrop) ==
            [width |-> fg.width, height |-> fg.height,
             pix |-> Table([p \in Coords(fg.width, fg.height) |->
                        SourceOver(KeyedOnly(v, PixelAt(fg, p[1], p[2]),
                                             hexToRgb(s.chroma.keyColor), s.chroma),
                                   PixelAt(backdrop, p[1], p[2]))])]
    IN  Only({laid(backdrop) :
                backdrop \in {Backdrop(v, BlankCanvas(fg.width, fg.height), s.bgImg)}})

NeutralRun ==
    /\ rendered # NoRun
    /\ rendered.adjust = DefaultAdjustments
    /\ IdentityTransform(rendered.transform)

\* C14: with every adjustment at 0 and the transform at identity the render
\* equals chroma key + spill, backdrop and overlay alone: the adjustment and
\* geometric stages leave every retained pixel's colour, alpha and position
\* as they were.
C14_NeutralStagesAreIdentity ==
    NeutralRun =>
        SameRaster(displayCanvas,
                   CropOutput(variant, DefaultCanvas,
                              KeyOnlyComposite(variant, rendered),
                              rendered.transform.crop, rendered.isCropping))

\* A render with neutral controls, reached after the controls had been
\* moved, that shows a retained pixel and a keyed-out one over a background.
C14_NeutralRenderAfterEdits ==
    /\ NeutralRun
    /\ edits >= 2
    /\ rendered.bgImg = "cutout"
    /\ lastOp.ran
    /\ PixelAt(displayCanvas, 1, 0) = Blue
    /\ PixelAt(displayCanvas, 1, 1) = White

(***************************************************************************)
(* The keying session: a green-screen foreground over a solid background,  *)
(* under several settings of the chroma controls.                          *)
(***************************************************************************)
KeyChoices ==
    {[similarity |-> sim, smoothness |-> 0, spill |-> 0, keyColor |-> KeyPureGreen] :
        sim \in {0, 1, 10}}
      \cup {[similarity |-> 10, smoothness |-> 8, spill |-> 10,
             keyColor |-> KeyPureGreen]}

NextKey ==
    \/ handleForegroundUpload("greenScreen")
    \/ handleBackgroundUpload("redWall")
    \/ \E c \in KeyChoices : setChromaSettings(c)
    \/ RunFrame

SpecKey == Init /\ [][NextKey]_vars

\* The pixel's colour is the key colour.
IsKeyColour(p, c) == <<p[1], p[2], p[3]>> = hexToRgb(c.keyColor)

GreenScreenCase ==
    /\ rendered # NoRun
    /\ rendered.fgImg = "greenScreen"
    /\ rendered.bgImg = "redWall"
    /\ rendered.chroma = [similarity |-> 10, smoothness |-> 0, spill |-> 0,
                          keyColor |-> KeyPureGreen]
    /\ NeutralRun

\* C15: a foreground pixel of the key colour gets alpha 0 for any
\* similarity > 0 and the output shows the backdrop there; the 4 x 4
\* all-#00FF00 foreground keyed with similarity 0.1, smoothness 0, spill 0
\* over solid #FF0000 renders 4 x 4 all #FF0000.
C15_KeyColourShowsBackground ==
    /\ (rendered # NoRun /\ rendered.chroma.similarity > 0) =>
          \A p \in Coords(Decoded(rendered.fgImg).width,
                          Decoded(rendered.fgImg).height) :
             IsKeyColour(PixelAt(Decoded(rendered.fgImg), p[1], p[2]),
                         rendered.chroma) =>
                /\ StoredAlpha(variant, 0, rendered.chroma) = 0
                /\ NeutralRun /\ ~rendered.isCropping =>
                      PixelAt(displayCanvas, p[1], p[2]) =
                        PixelAt(Backdrop(variant,
                                         BlankCanvas(displayCanvas.width,
                                                     displayCanvas.height),
                                         rendered.bgImg), p[1], p[2])
    /\ GreenScreenCase =>
          /\ displayCanvas.width = 4
          /\ displayCanvas.height = 4
          /\ \A p \in Coords(4, 4) : PixelAt(displayCanvas, p[1], p[2]) = Red

\* The green screen has been rendered over the red background with
\* similarity 0.1, smoothness 0 and spill 0.
C15_GreenScreenOverRed ==
    /\ GreenScreenCase
    /\ lastOp.ran
    /\ edits >= 1
    /\ PixelAt(displayCanvas, 3, 3) = Red

(***************************************************************************)
(* The tone stage run twice: on a sample pixel with brightness +b, then on *)
(* what it wrote with brightness -b.                                       *)
(***************************************************************************)
\* The Brightness slider: min -100, max 100.
MaxBrightness == 100

BrightnessRange == (0 - MaxBrightness) .. MaxBrightness

\* Sample pixels: every 8-bit value occurs in the red and the green channel.
SamplePixels == {<<c, 255 - c, (3 * c) % 256>> : c \in 0 .. 255}

\* The colour the loop writes for a retained pixel that spill suppression
\* leaves alone, under brightness b and every other adjustment at 0.
ToneStage(v, p, b) ==
    LET stored(t) == <<StoreClamped(t[1]), StoreClamped(t[2]), StoreClamped(t[3])>>
    IN  Only({stored(t) :
                t \in {ToneAdjust(v, <<2 * p[1], 2 * p[2], 2 * p[3]>>,
                                  [DefaultAdjustments EXCEPT !.brightness = b])}})

InitTone ==
    /\ InitSession
    /\ probe \in {[stage |-> "source", source |-> p, b |-> b, pixel |-> p] :
                    p \in SamplePixels, b \in BrightnessRange}

Brighten ==
    /\ probe.stage = "source"
    /\ probe' = [probe EXCEPT !.stage = "brightened",
                              !.pixel = ToneStage(variant, probe.pixel, probe.b)]
    /\ UNCHANGED <<variant, cameraVars, imageVars, sessionVars, settingVars, dragVars,
                   exportVars, rafQueue, displayCanvas, bufferCanvas, rendered,
                   lastOp, stagesRun>>

Darken ==
    /\ probe.stage = "brightened"
    /\ probe' = [probe EXCEPT !.stage = "restored",
                              !.pixel = ToneStage(variant, probe.pixel, 0 - probe.b)]
    /\ UNCHANGED <<variant, cameraVars, imageVars, sessionVars, settingVars, dragVars,
                   exportVars, rafQueue, displayCanvas, bufferCanvas, rendered,
                   lastOp, stagesRun>>

NextTone == Brighten \/ Darken

SpecTone == InitTone /\ [][NextTone]_vars

Abs(n) == IF n < 0 THEN 0 - n ELSE n

\* C16 as stated: brightness +b then -b gives back every channel within 1.
C16_BrightnessRoundTrip ==
    probe.stage = "restored" =>
        \A i \in 1 .. 3 : Abs(probe.pixel[i] - probe.source[i]) <= 1

\* C16, amended: the round trip gives back a channel v exactly when
\* 0 <= v + b <= 255; a channel that +b pushes past 255 comes back as
\* 255 - b, one that it pushes below 0 comes back as -b.
C16_BrightnessRoundTripClamped ==
    probe.stage = "restored" =>
        \A i \in 1 .. 3 :
            LET lifted == probe.source[i] + probe.b
            IN  probe.pixel[i] = IF lifted > 255 THEN 255 - probe.b
                                 ELSE IF lifted < 0 THEN 0 - probe.b
                                 ELSE probe.source[i]

\* 250 brightened by 20 was stored as 255 and came back as 235.
C16_ClampedChannelRestored ==
    /\ probe.stage = "restored"
    /\ probe.b = 20
    /\ probe.source[1] = 250
    /\ probe.pixel[1] = 235

(***************************************************************************)
(* The alpha matte on sample pixels: the pixel loop run on two pixels, the *)
(* first no farther from the key colour than the second.                   *)
(***************************************************************************)
\* Pixels at distance k / 442 from pure green, and three farther ones.
KeyDistances ==
    {0, 1, 4, 5, 44, 45, 79, 80, 154, 155, 176, 177, 198, 199, 212, 213,
     220, 221, 222, 255}

MattePixels ==
    {<<0, 255 - k, 0>> : k \in KeyDistances}
      \cup {<<255, 255, 255>>, <<200, 55, 200>>, <<255, 0, 255>>}

\* Positions of the Threshold and Smoothness sliders, in hundredths.
SimilaritySamples == {0, 10, 35, 40}

SmoothnessSamples == {0, 8, 10, 50}

MatteChoices ==
    {[similarity |-> sim, smoothness |-> smooth, spill |-> 10,
      keyColor |-> KeyPureGreen] :
        sim \in SimilaritySamples, smooth \in SmoothnessSamples}

\* data[offset + 3] after one turn of the loop on pixel p.
AlphaWritten(v, p, c) ==
    KeyPixel(v, p, hexToRgb(c.keyColor), c, DefaultAdjustments)[4]

KeyDistSq(p, c) == DistSq(p, hexToRgb(c.keyColor))

InitMatte ==
    /\ InitSession
    /\ probe \in {pr \in {[stage |-> "source", first |-> p1, second |-> p2,
                             chroma |-> c, alpha1 |-> NULL, alpha2 |-> NULL] :
                                c \in MatteChoices,
                                p1 \in MattePixels, p2 \in MattePixels} :
                        KeyDistSq(pr.first, pr.chroma) <= KeyDistSq(pr.second, pr.chroma)}

KeyFirst ==
    /\ probe.stage = "source"
    /\ probe' = [probe EXCEPT !.stage = "first",
                              !.alpha1 = AlphaWritten(variant, probe.first, probe.chroma)]
    /\ UNCHANGED <<variant, cameraVars, imageVars, sessionVars, settingVars, dragVars,
                   exportVars, rafQueue, displayCanvas, bufferCanvas, rendered,
                   lastOp, stagesRun>>

KeySecond ==
    /\ probe.stage = "first"
    /\ probe' = [probe EXCEPT !.stage = "second",
                              !.alpha2 = AlphaWritten(variant, probe.second, probe.chroma)]
    /\ UNCHANGED <<variant, cameraVars, imageVars, sessionVars, settingVars, dragVars,
                   exportVars, rafQueue, displayCanvas, bufferCanvas, rendered,
                   lastOp, stagesRun>>

NextMatte == KeyFirst \/ KeySecond

SpecMatte == InitMatte /\ [][NextMatte]_vars

\* C17: for a fixed key colour and any similarity, smoothness >= 0 the alpha
\* is non-decreasing in the colour distance: d1 <= d2 implies
\* alpha(d1) <= alpha(d2), at the band boundaries and in the flooring
\* front-end too.
C17_AlphaMonotone ==
    (/\ probe.stage = "second"
     /\ KeyDistSq(probe.first, probe.chroma) <= KeyDistSq(probe.second, probe.chroma))
        => probe.alpha1 <= probe.alpha2

\* The flooring front-end has keyed a pixel inside the band and one exactly
\* on the band's upper boundary, d = 0.5 = 0.4 + 0.1.
C17_RampThenBoundary ==
    /\ variant = "AIComposer"
    /\ probe.stage = "second"
    /\ probe.chroma.similarity = 40
    /\ probe.chroma.smoothness = 10
    /\ KeyDistSq(probe.second, probe.chroma) = 221 * 221
    /\ probe.alpha1 > 0
    /\ probe.alpha1 < 255
    /\ probe.alpha2 = 255

\* The pixels keyed so far, each with the alpha written for it.
Written ==
    CASE probe.stage = "first" -> {<<probe.first, probe.alpha1>>}
      [] probe.stage = "second" ->
            {<<probe.first, probe.alpha1>>, <<probe.second, probe.alpha2>>}
      [] OTHER -> {}

\* The sign of ((d - similarity) / smoothness) * 255 - n / 2 for the pixel p.
RampAgainstHalves(p, n) ==
    RampCmpHalves(KeyDistSq(p, probe.chroma), probe.chroma.similarity,
                  probe.chroma.smoothness, n)

InBand(p) ==
    /\ ~Below(KeyDistSq(p, probe.chroma), probe.chroma.similarity)
    /\ Below(KeyDistSq(p, probe.chroma),
             probe.chroma.similarity + probe.chroma.smoothness)

\* Outside the band: 0 below it, 255 from its upper end on.
OutsideBandAlpha(p, alpha) ==
    /\ alpha \in 0 .. 255
    /\ Below(KeyDistSq(p, probe.chroma), probe.chroma.similarity) => alpha = 0
    /\ ~Below(KeyDistSq(p, probe.chroma),
              probe.chroma.similarity + probe.chroma.smoothness) => alpha = 255

C20_HardStep ==
    probe.chroma.smoothness = 0 =>
        \A w \in Written :
            /\ w[2] \in {0, 255}
            /\ w[2] = 0 <=> Below(KeyDistSq(w[1], probe.chroma),
                                  probe.chroma.similarity)

\* With smoothness 0 and similarity 0.1 the pixels on either side of the
\* step, d = 44 / 442 and d = 45 / 442, have been keyed.
C20_BothSidesOfStep ==
    /\ probe.stage = "second"
    /\ probe.chroma.smoothness = 0
    /\ probe.chroma.similarity = 10
    /\ probe.first = <<0, 255 - 44, 0>>
    /\ probe.second = <<0, 255 - 45, 0>>
    /\ probe.alpha1 = 0
    /\ probe.alpha2 = 255

(***************************************************************************)
(* Properties of the crop drag.                                            *)
(***************************************************************************)
\* The run that has just executed worked on a snapshot that differs from
\* the one of the run before it in the crop rect only.
CropOnlyChange ==
    /\ lastOp'.ran
    /\ rendered # NoRun
    /\ rendered' # rendered
    /\ [rendered' EXCEPT !.transform.crop = rendered.transform.crop] = rendered

\* C18: a change of the crop rect by a crop drag re-runs only the crop copy
\* (stage 4.5) on the composited buffer, not keying, tone adjustment,
\* geometric transform or backdrop compositing.
C18_CropMoveCopiesOnly ==
    [][ CropOnlyChange => stagesRun' = <<"crop">> ]_vars

\* ProComposer has run its pipeline for a pointer move that changed the
\* crop rect only, and the run keyed and composited again.
C18_CropMoveRanPipeline ==
    /\ variant = "ProComposer"
    /\ lastOp = [op |-> "mousemove", ran |-> TRUE]
    /\ dragState.handle # "none"
    /\ rendered.transform.crop # FullCrop
    /\ {"key", "tone", "perspective", "backdrop"} \subseteq
            {stagesRun[i] : i \in DOMAIN stagesRun}

(***************************************************************************)
(* One turn of the pixel loop on a sample pixel, under settings of the     *)
(* chroma and adjustment controls the front-end can reach.                 *)
(***************************************************************************)
LoopPixels ==
    {<<0, 255 - k, 0>> : k \in {0, 44, 45, 80, 154, 177, 221}}
      \cup {<<10, 200, 15>>, <<60, 140, 20>>, <<200, 55, 200>>}

LoopChromas ==
    {[similarity |-> sim, smoothness |-> smooth, spill |-> spill,
      keyColor |-> KeyPureGreen] :
        sim \in {10, 40}, smooth \in {0, 8, 50}, spill \in {0, 10}}

\* Slider positions: AIComposer has all five controls, the others
\* saturation and warmth.
LoopAdjusts(v) ==
    IF v = "AIComposer"
    THEN {[DefaultAdjustments EXCEPT !.brightness = br, !.blackPoint = bp,
                                     !.saturation = sat, !.warmth = w, !.tint = t] :
            br \in {0, 20}, bp \in {0, 30}, sat \in {0, 50}, w \in {0, 30},
            t \in {0, 10}}
    ELSE {[DefaultAdjustments EXCEPT !.saturation = sat, !.warmth = w] :
            sat \in {-50, 0, 50}, w \in {0, 30}}

InitLoop ==
    /\ InitSession
    /\ probe \in {[stage |-> "source", pixel |-> p, chroma |-> c, adjust |-> a,
                    out |-> <<p[1], p[2], p[3], 255>>] :
                    p \in LoopPixels, c \in LoopChromas, a \in LoopAdjusts(variant)}

\* The loop body: data[offset .. offset + 3] after the turn.
LoopTurn ==
    /\ probe.stage = "source"
    /\ probe' = [probe EXCEPT !.stage = "written",
                              !.out = KeyPixel(variant, probe.pixel,
                                               hexToRgb(probe.chroma.keyColor),
                                               probe.chroma, probe.adjust)]
    /\ UNCHANGED <<variant, cameraVars, imageVars, sessionVars, settingVars, dragVars,
                   exportVars, rafQueue, displayCanvas, bufferCanvas, rendered,
                   lastOp, stagesRun>>

NextLoop == LoopTurn

SpecLoop == InitLoop /\ [][NextLoop]_vars

\* d < t for the sampled pixel, t in hundredths.
SampleBelow(t) == Below(KeyDistSq(probe.pixel, probe.chroma), t)

\* The green channel exceeds the average of red and blue.
GreenAboveAverage(p) == 2 * p[2] > p[1] + p[3]

\* C21: spill suppression applies to exactly the pixels with alpha > 0 and
\* d < similarity + smoothness + spill: their green is lowered to (R + B) / 2
\* when it exceeds that, every other pixel keeps its green; so every partly
\* transparent pixel is spill-corrected.
C21_SpillWithinRampAndSpill ==
    (probe.stage = "written" /\ probe.adjust = DefaultAdjustments) =>
        /\ probe.out[2] =
              IF /\ AlphaPositive(variant, KeyDistSq(probe.pixel, probe.chroma),
                                  probe.chroma)
                 /\ SampleBelow(probe.chroma.similarity + probe.chroma.smoothness
                                    + probe.chroma.spill)
                 /\ GreenAboveAverage(probe.pixel)
              THEN StoreClampedHalves(probe.pixel[1] + probe.pixel[3])
              ELSE probe.pixel[2]
        /\ (probe.out[4] \in 1 .. 254 /\ GreenAboveAverage(probe.pixel)) =>
              probe.out[2] = StoreClampedHalves(probe.pixel[1] + probe.pixel[3])

\* AIComposer has written a partly transparent pixel whose green exceeds
\* the average of red and blue and has left the green as it was:
\* d >= similarity + spill.
C21_RampPixelNotCorrected ==
    /\ variant = "AIComposer"
    /\ probe.stage = "written"
    /\ probe.adjust = DefaultAdjustments
    /\ probe.out[4] \in 1 .. 254
    /\ GreenAboveAverage(probe.pixel)
    /\ ~SampleBelow(probe.chroma.similarity + probe.chroma.spill)
    /\ probe.out[2] = probe.pixel[2]

\* The alpha the loop computed for the sampled pixel is 0.
ComputedAlphaZero ==
    ~AlphaPositive(variant, KeyDistSq(probe.pixel, probe.chroma), probe.chroma)

\* C22: a pixel whose computed alpha is 0 keeps its R, G and B as in the
\* source: spill suppression and the tone adjustments touch only pixels
\* with alpha > 0, while alpha is written for every pixel.
C22_KeyedOutPixelKeepsColour ==
    probe.stage = "written" =>
        /\ probe.out[4] =
              StoredAlpha(variant, KeyDistSq(probe.pixel, probe.chroma), probe.chroma)
        /\ ComputedAlphaZero =>
              /\ probe.out[4] = 0
              /\ <<probe.out[1], probe.out[2], probe.out[3]>> = probe.pixel

\* A keyed-out pixel inside the spill radius has been written under moved
\* saturation and warmth sliders, with the colour it had.
C22_KeyedOutUnderAdjustments ==
    /\ probe.stage = "written"
    /\ ComputedAlphaZero
    /\ probe.pixel = <<10, 200, 15>>
    /\ probe.adjust.saturation = 50
    /\ probe.adjust.warmth = 30
    /\ probe.chroma.spill = 10
    /\ probe.out = <<10, 200, 15, 0>>

\* The sampled pixel as it enters the tone stages, on numerators over 2.
SpillCorrected ==
    <<2 * probe.pixel[1],
      IF SpillApplies(variant, KeyDistSq(probe.pixel, probe.chroma), probe.chroma)
      THEN Min(2 * probe.pixel[2], probe.pixel[1] + probe.pixel[3])
      ELSE 2 * probe.pixel[2],
      2 * probe.pixel[3]>>

\* The bytes stored for a toned pixel: one clamp to [0, 255] per channel.
ClampedOnce(t) == <<StoreClamped(t[1]), StoreClamped(t[2]), StoreClamped(t[3])>>

\* C23: the tone stages of a retained pixel run in the order brightness,
\* black point, saturation, warmth, tint, each reading the output of the
\* one before, with a single clamp to [0, 255] after the last stage.
C23_ToneStagesInOrder ==
    (probe.stage = "written" /\ ~ComputedAlphaZero) =>
        <<probe.out[1], probe.out[2], probe.out[3]>> =
            ClampedOnce(ToneAdjustSaturateFirst(variant, SpillCorrected, probe.adjust))

\* ProComposer has written an opaque pixel under saturation +50 and warmth
\* +30 with the bytes of warmth-then-saturation, which are not those of
\* saturation-then-warmth.
C23_WarmthBeforeSaturation ==
    /\ variant = "ProComposer"
    /\ probe.stage = "written"
    /\ probe.pixel = <<60, 140, 20>>
    /\ probe.chroma.similarity = 10 /\ probe.chroma.smoothness = 0
    /\ probe.chroma.spill = 0
    /\ probe.adjust.saturation = 50
    /\ probe.adjust.warmth = 30
    /\ <<probe.out[1], probe.out[2], probe.out[3]>> #
            ClampedOnce(ToneAdjustSaturateFirst(variant, SpillCorrected, probe.adjust))

\* The stages of stagesRun ran in an order in which `before` holds of every
\* earlier and later stage that it relates.
RanInOrder(before) ==
    \A i, j \in DOMAIN stagesRun :
        <<stagesRun[j], stagesRun[i]>> \in before => j < i

\* The pairs <<a, b>> with a ahead of b in the sequence `order`.
Ahead(order) ==
    {<<order[q[1]], order[q[2]]>> :
        q \in {pr \in (DOMAIN order) \X (DOMAIN order) : pr[1] < pr[2]}}

TiltVariants == {"AIComposer", "ProComposer"}

TiltControls == {-100, -60, -20, 20, 60, 100}

TiltExtents == {2, 3, 4, 5, 6, 8}

\* The strips drawn, in loop order: position, scale over 200 * n, and the
\* offset (m - m * scale) / 2 of the scaled strip over 400 * n.
TiltStrips(v, n, m, tilt) ==
    LET strip(pos) ==
            [at |-> pos,
             scale |-> StripScale(n, pos, tilt, TiltSign(v)),
             offset |-> m * (200 * n - StripScale(n, pos, tilt, TiltSign(v)))]
        visited == [k \in 1 .. CeilDiv(n, TiltStep(v)) |-> strip((k - 1) * TiltStep(v))]
        drawn(st) == st.scale > 0
    IN  SelectSeq(visited, drawn)

InitTilt ==
    /\ InitSession
    /\ variant \in TiltVariants
    /\ probe \in {[stage |-> "layer", axis |-> ax, control |-> c, along |-> n,
                    across |-> 4, strips |-> <<>>] :
                    ax \in {"vertical", "horizontal"}, c \in TiltControls,
                    n \in TiltExtents}

\* The tilt loop of the sampled axis.
TiltTurn ==
    /\ probe.stage = "layer"
    /\ probe' = [probe EXCEPT !.stage = "warped",
                              !.strips = TiltStrips(variant, probe.along,
                                                    probe.across, probe.control)]
    /\ UNCHANGED <<variant, cameraVars, imageVars, sessionVars, settingVars, dragVars,
                   exportVars, rafQueue, displayCanvas, bufferCanvas, rendered,
                   lastOp, stagesRun>>

NextTilt == TiltTurn

SpecTilt == InitTilt /\ [][NextTilt]_vars

\* C25: for a nonzero tilt control c, the strip at position pos of n is
\* scaled by 1 - c/200 + (c/100) * (pos/n), a factor linear from 1 - c/200
\* at the first strip towards 1 + c/200 at the far edge, and is centred in
\* the original extent; a nonzero control changes the layer.
C25_TiltScalesLinearly ==
    probe.stage = "warped" =>
        /\ probe.strips # <<>>
        /\ \A k \in DOMAIN probe.strips :
              /\ probe.strips[k].scale =
                    200 * probe.along - probe.along * probe.control
                        + 2 * probe.strips[k].at * probe.control
              /\ 2 * probe.strips[k].offset + 2 * probe.across * probe.strips[k].scale
                    = 2 * probe.across * 200 * probe.along
        /\ \E k \in DOMAIN probe.strips :
              probe.strips[k].scale # 200 * probe.along

\* AIComposer has warped a layer of 4 rows under vertical tilt +20: its
\* first row is scaled by 1.1, not by 0.9.
C25_FirstRowWidened ==
    /\ variant = "AIComposer"
    /\ probe.stage = "warped"
    /\ probe.axis = "vertical"
    /\ probe.control = 20
    /\ probe.along = 4
    /\ probe.strips[1].at = 0
    /\ 10 * probe.strips[1].scale = 11 * 200 * probe.along

(***************************************************************************)
(* The background draw on its own: the rectangle computed for a background *)
(* image and a canvas of sampled sizes.                                    *)
(***************************************************************************)
BackgroundSizes == {1, 2, 3, 4, 11, 22}

CanvasSizes == {2, 4, 15, 30}

InitFill ==
    /\ InitSession
    /\ probe \in {[stage |-> "sized", bg |-> <<bw, bh>>, canvas |-> <<W, H>>,
                    rect |-> [D |-> 1, dx |-> 0, dy |-> 0, dw |-> 0, dh |-> 0,
                              short |-> FALSE]] :
                    bw \in BackgroundSizes, bh \in BackgroundSizes,
                    W \in CanvasSizes, H \in CanvasSizes}

\* Step 1 of the render up to its drawImage call.
FillTurn ==
    /\ probe.stage = "sized"
    /\ probe' = [probe EXCEPT !.stage = "drawn",
                              !.rect = AspectFill(probe.bg[1], probe.bg[2],
                                                  probe.canvas[1], probe.canvas[2])]
    /\ UNCHANGED <<variant, cameraVars, imageVars, sessionVars, settingVars, dragVars,
                   exportVars, rafQueue, displayCanvas, bufferCanvas, rendered,
                   lastOp, stagesRun>>

NextFill == FillTurn

SpecFill == InitFill /\ [][NextFill]_vars

\* The exact rectangle covers the canvas and keeps one canvas dimension.
CoversExactly(g, W, H) ==
    /\ g.dx <= 0 /\ g.dy <= 0
    /\ g.dx + g.dw >= W * g.D
    /\ g.dy + g.dh >= H * g.D
    /\ g.dw = W * g.D \/ g.dh = H * g.D

\* The background image keeps its aspect ratio in the rectangle.
KeepsAspect(g, bw, bh) == g.dw * bh = g.dh * bw

\* C26: a background image of any positive size is drawn with its aspect
\* ratio kept and centred so that the rectangle covers the whole W x H
\* canvas: offsetX <= 0, offsetY <= 0, offsetX + drawW >= W, offsetY +
\* drawH >= H, with one drawn dimension equal to the canvas dimension.
C26_FillCoversCanvas ==
    probe.stage = "drawn" =>
        /\ CoversExactly(probe.rect, probe.canvas[1], probe.canvas[2])
        /\ KeepsAspect(probe.rect, probe.bg[1], probe.bg[2])
        /\ ~probe.rect.short

\* C26, up to rounding: the rectangle covers the canvas in exact
\* arithmetic, and the computed one does unless the image and the canvas
\* have the same aspect ratio, where the drawn width is the canvas width
\* and the computed height may fall a rounding error short of the canvas
\* height.
C26_FillCoversCanvasUpToRounding ==
    probe.stage = "drawn" =>
        /\ CoversExactly(probe.rect, probe.canvas[1], probe.canvas[2])
        /\ KeepsAspect(probe.rect, probe.bg[1], probe.bg[2])
        /\ probe.rect.short =>
              /\ probe.bg[1] * probe.canvas[2] = probe.canvas[1] * probe.bg[2]
              /\ probe.rect.dw = probe.canvas[1] * probe.rect.D

\* An 11 x 11 background has been sized for a 15 x 15 canvas: the drawn
\* width is 15 and the computed height is below 15.
C26_SquareFallsShort ==
    /\ probe.stage = "drawn"
    /\ probe.bg = <<11, 11>>
    /\ probe.canvas = <<15, 15>>
    /\ probe.rect.dw = 15 * probe.rect.D
    /\ probe.rect.short

\* C27: every background-generation request that is started eventually
\* leaves GENERATING_BG: its handler ends with the new background installed
\* and status set to IDLE, or with status set to ERROR, also when the image
\* data does not decode.
C27_GenerationEnds ==
    \A r \in 1..MaxRequests :
        (Len(requests) >= r) ~> (Len(requests) >= r /\ Completed(r))

\* The only request issued was answered with data that did not decode, and
\* the status still says that a background is being generated.
C27_StuckGenerating ==
    /\ Len(requests) = 1
    /\ requests[1].st = "undecodable"
    /\ status = "GENERATING_BG"
    /\ bgImg = NULL

(***************************************************************************)
(* The status indicator: generation, export and the clicks that start      *)
(* them, interleaved.                                                      *)
(***************************************************************************)
\* ProComposer's Ready to Save? button: onClick sets the status and starts
\* nothing.
readyToSave ==
    /\ variant = "ProComposer"
    /\ status' = "COMPRESSING"
    /\ UNCHANGED <<variant, probe, cameraVars, exportVars, imageVars, aiPrompt, requests,
                   settingVars, dragVars>>
    /\ NoRender("readyToSave")

NextStatus ==
    \/ handleForegroundUpload("portrait")
    \/ setAiPrompt(<<" ", "a", " ">>)
    \/ handleGenerateBackground
    \/ \E r \in 1..MaxRequests : GenerationResolves(r, ResponseImage(r))
    \/ \E r \in 1..MaxRequests : GenerationRejects(r)
    \/ \E r \in 1..MaxRequests : ImageLoaded(r)
    \/ \E r \in 1..MaxRequests : ImageFails(r)
    \/ \E e \in ExportChoices : setExportSettings(e)
    \/ handleExport
    \/ ExportTimeout
    \/ \E over \in BOOLEAN : EncodeResolves(over)
    \/ readyToSave
    \/ RunFrame

SpecStatus == Init /\ [][NextStatus]_vars

\* Every timer fires, every toBlob callback is called, every service call
\* settles and every decode ends.
SpecStatusLive ==
    /\ SpecStatus
    /\ WF_vars(ExportTimeout)
    /\ WF_vars(\E over \in BOOLEAN : EncodeResolves(over))
    /\ \A r \in 1..MaxRequests :
          /\ WF_vars(GenerationResolves(r, ResponseImage(r)) \/ GenerationRejects(r))
          /\ WF_vars(ImageLoaded(r) \/ ImageFails(r))

\* A generation request is outstanding: its call or its decode is pending.
GenerationOutstanding ==
    \E r \in DOMAIN requests : requests[r].st \in {"calling", "decoding"}

\* handleExport is between its first await and its end.
ExportRunning == exportRun.pc \in {"waiting", "encoding"}

\* C28: under every interleaving of generation, export and clicks, status
\* is GENERATING_BG whenever a generation request is outstanding and
\* COMPRESSING whenever an export is running.
C28_StatusTracksOperations ==
    /\ GenerationOutstanding => status = "GENERATING_BG"
    /\ ExportRunning => status = "COMPRESSING"

\* AIComposer: Export Image was clicked while the service call was pending;
\* the status says COMPRESSING and the Generate button, disabled only on
\* GENERATING_BG, is enabled with the request still outstanding.
C28_ExportHidesGeneration ==
    /\ variant = "AIComposer"
    /\ Len(requests) = 1
    /\ requests[1].st = "calling"
    /\ ExportRunning
    /\ status = "COMPRESSING"

\* C29: whenever status becomes COMPRESSING it eventually becomes DONE, for
\* every encoder outcome and in every front-end that sets COMPRESSING.
C29_CompressingEndsDone ==
    (status = "COMPRESSING") ~> (status = "DONE")

\* ProComposer shows COMPRESSING after a click on Ready to Save? with no
\* export and no generation in progress.
C29_CompressingWithoutExport ==
    /\ variant = "ProComposer"
    /\ status = "COMPRESSING"
    /\ lastOp.op = "readyToSave"
    /\ exportRun.pc = "idle"
    /\ ~GenerationOutstanding

(***************************************************************************)
(* TeamPhotoEditor's camera.  The video element is rendered only while     *)
(* isCameraActive holds, so videoRef.current is the element exactly then.  *)
(* A stream is named by the index of the getUserMedia call that gave it.   *)
(***************************************************************************)
MaxCameraTasks == 3

\* videoRef.current is not null
VideoMounted == isCameraActive

\* What the camera shows when a frame is captured.
CameraFrame == "portrait"

\* const stream = await navigator.mediaDevices.getUserMedia(..), up to the
\* await.
startCamera ==
    /\ cameraTasks' = Append(cameraTasks, [kind |-> "getUserMedia", st |-> "pending"])
    /\ UNCHANGED <<isCameraActive, srcObject, liveTracks>>

\* capturePhoto up to img.src = dataUrl: nothing without the video element.
capturePhoto ==
    /\ cameraTasks' = IF VideoMounted
                      THEN Append(cameraTasks, [kind |-> "capture", st |-> "pending"])
                      ELSE cameraTasks
    /\ UNCHANGED <<isCameraActive, srcObject, liveTracks>>

\* onClick of the Take Photo Live / Capture Now button.
cameraButton ==
    /\ variant = "TeamPhotoEditor"
    /\ Len(cameraTasks) < MaxCameraTasks
    /\ IF isCameraActive THEN capturePhoto ELSE startCamera
    /\ UNCHANGED <<variant, probe, exportVars, imageVars, sessionVars, settingVars,
                   dragVars>>
    /\ NoRender("cameraButton")

\* The rest of startCamera once the call settles: with a stream, and a
\* video element to attach it to, the stream is attached and the flag set;
\* a rejection is caught and reported.
StreamSettles(k, granted) ==
    /\ cameraTasks' = [cameraTasks EXCEPT
                          ![k].st = IF granted THEN "granted" ELSE "denied"]
    /\ liveTracks' = IF granted THEN liveTracks \cup {k} ELSE liveTracks
    /\ IF granted /\ VideoMounted
       THEN srcObject' = k /\ isCameraActive' = TRUE
       ELSE UNCHANGED <<srcObject, isCameraActive>>
    /\ UNCHANGED fgImg

\* img.onload of the captured frame: the frame becomes the foreground, the
\* flag is cleared and the tracks of the attached stream are stopped.
FrameLoaded(k) ==
    /\ cameraTasks' = [cameraTasks EXCEPT ![k].st = "loaded"]
    /\ fgImg' = CameraFrame
    /\ isCameraActive' = FALSE
    /\ liveTracks' = liveTracks \ {srcObject}
    /\ UNCHANGED srcObject

\* The browser runs the callback of the k-th camera task.
CameraTaskRuns(k, granted) ==
    /\ variant = "TeamPhotoEditor"
    /\ k \in DOMAIN cameraTasks
    /\ cameraTasks[k].st = "pending"
    /\ IF cameraTasks[k].kind = "getUserMedia"
       THEN StreamSettles(k, granted)
       ELSE granted /\ FrameLoaded(k)
    /\ UNCHANGED <<variant, probe, exportVars, bgImg, backgroundSrc, sessionVars,
                   settingVars, dragVars>>
    /\ IF fgImg' # fgImg THEN RenderEffect("frameLoaded") ELSE NoRender("cameraTask")

NextCamera ==
    \/ handleForegroundUpload("wide")
    \/ \E prompt \in Prompts : setAiPrompt(prompt)
    \/ cameraButton
    \/ \E k \in 1..MaxCameraTasks, granted \in BOOLEAN : CameraTaskRuns(k, granted)

SpecCamera == Init /\ [][NextCamera]_vars

\* A getUserMedia call has resolved with a stream.
StreamObtained == \E k \in DOMAIN cameraTasks : cameraTasks[k].st = "granted"

\* C30: once Take Photo Live has obtained a camera stream the camera is
\* active and the stream is attached to the video element, until a capture
\* installs the frame as the foreground, clears isCameraActive and stops
\* every track of the stream.
C30_CameraActivates ==
    /\ (StreamObtained /\ \A k \in DOMAIN cameraTasks : cameraTasks[k].st # "loaded")
          => (isCameraActive /\ srcObject # 0)
    /\ lastOp.op = "frameLoaded"
          => (fgImg = CameraFrame /\ ~isCameraActive /\ srcObject \notin liveTracks)

\* The only getUserMedia call resolved with a stream: its tracks run, but
\* the flag is still false and no stream is attached, so the button still
\* reads Take Photo Live and no capture can follow.
C30_StreamLeftRunning ==
    /\ variant = "TeamPhotoEditor"
    /\ Len(cameraTasks) = 1
    /\ cameraTasks[1] = [kind |-> "getUserMedia", st |-> "granted"]
    /\ liveTracks = {1}
    /\ ~isCameraActive
    /\ srcObject = 0

====
